---- MODULE Spec2Model ----
(***************************************************************************)
(* A model of the X tweet monitor: the mirror fetch with retry and         *)
(* failover of TwitterMonitor (src/x/twitter_monitor.py) and the tweet     *)
(* check of XMonitorService (src/main.py).                                 *)
(*                                                                         *)
(* Tweet identifiers are Python strings of decimal digits and are modelled *)
(* as sequences of digits, so that the string comparison the code sorts    *)
(* by and the numeric order of the identifiers are two different things.   *)
(*                                                                         *)
(* main.py uses the monitor through get_latest_tweets(username, limit=5)   *)
(* and reads the identifier of a record with .get('id'); the model joins   *)
(* the two files by name: the list monitor_tweets receives is a list       *)
(* get_latest_tweets can return, and 'id' is the record's tweet_id.        *)
(***************************************************************************)
EXTENDS Integers, Sequences, FiniteSets, TLC

VARIABLES
    \* ---- TwitterMonitor (src/x/twitter_monitor.py) ----
    max_retries,    \* self.max_retries
    retry_delay,    \* self.retry_delay
    max_tweets,     \* the max_tweets argument of the running get_latest_tweets
    urls,           \* the shuffled copy of self.nitter_urls
    idx,            \* position of the for loop in urls
    attempt,        \* the attempt variable of _make_request
    pc,             \* "idle", "request" (inside _make_request), "done"
    all_tweets,     \* all_tweets of get_latest_tweets
    result,         \* the list get_latest_tweets returned
    gets,           \* history: GET attempts issued per mirror in this call
    fails,          \* history: failed GET attempts per mirror in this call
    tried,          \* history: mirrors handed to _get_tweets_from_nitter, in order
    yielded,        \* history: ids each mirror's page parsed into
    pageRecords,    \* history: ids of every timeline element of the page the records came from
    returnedNone,   \* history: _make_request returned None for the mirror
    slept,          \* history: the delays slept per mirror in this call, in order
    \* ---- XMonitorService (src/main.py) ----
    last_tweet_ids,         \* self.last_tweet_ids, a dict keyed by username
    on_first_run_push_all,  \* the configured first-run flag
    fetched,        \* history: ids get_latest_tweets returned in the last tweet check
    notified,       \* history: notifications of the last tweet check, in order
    markerBefore,   \* history: last_tweet_ids as it was before the last tweet check
    repeat,         \* history: the last tweet check fetched what the one before it fetched
    webhookOk,      \* history: the webhook accepted messages during the last tweet check
    undelivered,    \* history: ids notified without success and not delivered since
    last_stats,     \* self.last_stats, a dict keyed by username
    statsFetched,   \* history: what get_user_stats returned in the last stats check
    statsNotified,  \* history: stats notifications of the last stats check
    statsBefore,    \* history: last_stats as it was before the last stats check
    restartPc,      \* history: "restarted" after __init__ ran again, "first_cycle"
                    \* after the first tweet check since then, else "running"
    twitter_users,  \* config.TWITTER_USERS, the configured list of usernames
    xtracker_url,   \* config.XTRACKER_API_URL is set
    mode,           \* the entry point main() took: "once" or "schedule"
    runPc,          \* where the entry point is: "idle", "tweets", "stats", ...
    runIdx,         \* position of the running for loop in twitter_users
    calls,          \* history: the checks called since the entry point started
    visited,        \* history: usernames the running check has processed, in
                    \* order, each with where an exception was raised
    interruptedAt,  \* history: where run_schedule was when the interrupt came,
                    \* "" before it
    stopNotes,      \* history: stopping notifications handed to the DingTalk client
    stopDelivered,  \* history: the webhook accepted the stopping notification
    startedAfter,   \* history: a task was started after the interrupt
    activeTasks,    \* history: the task bodies entered and not yet left, in order
    healthProbes,   \* history: what the probes of health_check met
    healthResults,  \* what health_check returned: <<>> before, then <<results>>
    fmtTweet,       \* history: the record handed to _send_tweet_notification
    fmtMessage,     \* the content placed in the local `message` of that method
    fmtSent,        \* history: the markdown message handed to the webhook
    deliveredBefore,    \* history: ids the webhook accepted a notification for before the last tweet check
    tweetPc,        \* where an overlapping tweet check is: "start", "fetched", "write", "notify", "done"
    tweetLocal,     \* its locals: current_tweet_id
    statsPc,        \* where an overlapping stats check is: "start", "fetched", "notify", "write", "done"
    statsLocal,     \* its locals: stats, last_stats
    written,        \* history: what each of the two checks assigned to the service's state
    overlapped,     \* history: one check took a step while the other was under way
    handedOver,     \* history: which of the two checks handed a notification to the client
    stateBefore,    \* history: the service's two dicts when the pair of checks began
    cyTask,         \* the check a cycle runs, request by request: "none" before the first
    cyPc,           \* where the cycle is: "idle", "get", "post", "done"
    cyUser,         \* position of the for loop over TWITTER_USERS
    cyMirror,       \* position of the for loop over the mirrors
    cyAttempt,      \* the attempt variable of the retry loop the cycle is in
    cyGets,         \* history: GET attempts of the cycle
    cyPosts,        \* history: POST attempts of the cycle
    cyNotes,        \* history: notifications the cycle handed to the client
    \* ---- XTrackerClient (src/x/xtracker_client.py) ----
    xt_max_retries, \* self.max_retries of the XTracker client
    jsonErrorIsRequestException,
                    \* response.json() raises a subclass of RequestException
                    \* (it does from requests 2.27 on, not before)
    xtPc,           \* "idle", "request" (inside _make_request), "returned"
    xtAttempt,      \* the attempt variable of _make_request
    xtGets,         \* history: GET attempts of this call
    xtSlept,        \* history: the delays slept in this call, in order
    xtLast,         \* history: the answer to the last GET of this call
    xtData,         \* what _make_request returned
    xtStats,        \* what get_user_stats returned: <<>> for None or <<stats>>
    \* ---- DingTalkClient (src/x/dingtalk.py) ----
    ding_max_retries,   \* self.max_retries of the DingTalk client
    msgtype,        \* "msgtype" of the payload being sent
    dingPc,         \* "idle", "sending" (inside _send_request), "returned"
    dingAttempt,    \* the attempt variable of _send_request
    dingResult,     \* how _send_request ended: "True", "False" or "raised"
    posts,          \* history: POST attempts of this call
    responses,      \* history: what the webhook answered to each POST of this call
    dingSlept,      \* history: the delays slept in this call, in order
    escaped         \* an exception left the notification step of the service

vars == <<max_retries, retry_delay, slept, max_tweets, urls, idx, attempt, pc, all_tweets, result,
          gets, fails, tried, yielded, pageRecords, returnedNone,
          last_tweet_ids, on_first_run_push_all, fetched, notified,
          markerBefore, repeat, webhookOk, undelivered,
          last_stats, statsFetched, statsNotified, statsBefore, restartPc,
          twitter_users, xtracker_url, mode, runPc, runIdx, calls, visited,
          interruptedAt, stopNotes, stopDelivered, startedAfter, activeTasks,
          healthProbes, healthResults, fmtTweet, fmtMessage, fmtSent,
          deliveredBefore, tweetPc, tweetLocal, statsPc, statsLocal, written,
          overlapped, handedOver, stateBefore,
          cyTask, cyPc, cyUser, cyMirror, cyAttempt, cyGets, cyPosts, cyNotes,
          xt_max_retries, jsonErrorIsRequestException, xtPc, xtAttempt, xtGets,
          xtSlept, xtLast, xtData, xtStats,
          ding_max_retries, msgtype, dingPc, dingAttempt, dingResult, posts,
          responses, dingSlept, escaped>>

fetchVars == <<max_retries, retry_delay, slept, max_tweets, urls, idx, attempt, pc, all_tweets,
               result, gets, fails, tried, yielded, pageRecords,
               returnedNone>>

statsVars == <<last_stats, statsFetched, statsNotified, statsBefore>>

runVars == <<twitter_users, xtracker_url, mode, runPc, runIdx, calls, visited>>

xtVars == <<xt_max_retries, jsonErrorIsRequestException, xtPc, xtAttempt,
            xtGets, xtSlept, xtLast, xtData, xtStats>>

schedVars == <<interruptedAt, stopNotes, stopDelivered, startedAfter,
               activeTasks>>

healthVars == <<healthProbes, healthResults>>

fmtVars == <<fmtTweet, fmtMessage, fmtSent>>

\* What no step of the service's checks assigns.
cycleVars == <<deliveredBefore>>

concVars == <<tweetPc, tweetLocal, statsPc, statsLocal, written, overlapped,
              handedOver, stateBefore>>

loopVars == <<cyTask, cyPc, cyUser, cyMirror, cyAttempt, cyGets, cyPosts,
              cyNotes>>

otherVars == <<xtVars, schedVars, healthVars, fmtVars, cycleVars, concVars,
               loopVars>>

serviceVars == <<last_tweet_ids, on_first_run_push_all, fetched, notified,
                 markerBefore, repeat, webhookOk, undelivered, statsVars,
                 restartPc, runVars, otherVars>>

dingVars == <<ding_max_retries, msgtype, dingPc, dingAttempt, dingResult, posts,
              responses, dingSlept, escaped>>

(***************************************************************************)
(* Bounds of the model.                                                    *)
(***************************************************************************)
MaxRetries == 4     \* max_retries ranges over 0..MaxRetries
MaxPageLen == 3     \* timeline elements on one mirror page
MaxTweetsArg == 2   \* max_tweets ranges over 0..MaxTweetsArg in the fetch model
MaxCount == 1       \* followers, following and tweets range over 0..MaxCount
MaxUsers == 2       \* TWITTER_USERS holds at most MaxUsers usernames
MaxKeys == 2        \* keys in one stats payload
MaxListLen == 2     \* elements of a list-typed stats response
MaxOver == 2        \* how far a length lies from 0 or from a limit it is cut at

(***************************************************************************)
(* The data of the model.                                                  *)
(***************************************************************************)
\* The tweet ids that exist upstream: "9", "10", "11", "12".
Ids == {<<9>>, <<1, 0>>, <<1, 1>>, <<1, 2>>}

\* A timeline element _parse_tweet returns None for (no status link, no
\* content div): it carries no id.
NoLink == <<>>

Elements == Ids \cup {NoLink}

SeqsUpTo(S, n) == UNION {[1..k -> S] : k \in 0..n}

\* What a mirror can serve: a page of at most MaxPageLen timeline elements.
Pages == SeqsUpTo(Elements, MaxPageLen)

Range(s) == {s[i] : i \in 1..Len(s)}


(***************************************************************************)
(* Pure functions of TwitterMonitor.                                       *)
(***************************************************************************)
\* nitter_urls: the configured mirrors.
nitter_urls == <<"mirrorA", "mirrorB">>

Mirrors == Range(nitter_urls)

\* random.shuffle(urls): any reordering of the list.
Shuffles(s) ==
    {p \in [1..Len(s) -> Range(s)] :
        \A i, j \in 1..Len(s) : p[i] = p[j] => i = j}

\* Python's < on str, for strings of digits: code point order, a proper
\* prefix is smaller.
RECURSIVE StrLess(_, _)
StrLess(a, b) ==
    IF a = <<>> THEN b # <<>>
    ELSE IF b = <<>> THEN FALSE
    ELSE IF Head(a) # Head(b) THEN Head(a) < Head(b)
    ELSE StrLess(Tail(a), Tail(b))

\* The records of a whole page: every timeline element _parse_tweet returns
\* a Tweet for, in page order.
Records(page) == SelectSeq(page, LAMBDA e : e # NoLink)

\* _get_tweets_from_nitter, after the response: the first max_tweets
\* elements, those _parse_tweet returns a Tweet for.
ParsedTweets(page, n) ==
    LET firstN == SubSeq(page, 1, IF Len(page) < n THEN Len(page) ELSE n)
    IN  SelectSeq(firstN, LAMBDA e : e # NoLink)

\* tweet.nitter_source = nitter_url, for every tweet of the list.
Tagged(ids, m) ==
    [i \in 1..Len(ids) |-> [tweet_id |-> ids[i], nitter_source |-> m]]

\* The seen_ids loop: the first record of every tweet_id, in order.
RemoveDuplicates_Keep(tweets) == tweets

RECURSIVE UniqueFrom(_, _)
UniqueFrom(tweets, seen_ids) ==
    IF tweets = <<>> THEN <<>>
    ELSE IF Head(tweets).tweet_id \in seen_ids
         THEN UniqueFrom(Tail(tweets), seen_ids)
         ELSE <<Head(tweets)>> \o
              UniqueFrom(Tail(tweets), seen_ids \cup {Head(tweets).tweet_id})

RemoveDuplicates(tweets) == UniqueFrom(tweets, {})

\* list.sort(key=lambda x: x.tweet_id, reverse=True): a stable sort by the
\* tweet_id string, descending; records with equal keys keep their order.
RECURSIVE InsertDesc(_, _)
InsertDesc(t, sorted) ==
    IF sorted = <<>> THEN <<t>>
    ELSE IF StrLess(Head(sorted).tweet_id, t.tweet_id)
         THEN <<t>> \o sorted
         ELSE <<Head(sorted)>> \o InsertDesc(t, Tail(sorted))

RECURSIVE SortNewestFirst(_)
SortNewestFirst(tweets) ==
    IF tweets = <<>> THEN <<>>
    ELSE InsertDesc(tweets[Len(tweets)],
                    SortNewestFirst(SubSeq(tweets, 1, Len(tweets) - 1)))

\* unique_tweets[:max_tweets], for max_tweets >= 0.
Truncate(tweets, n) ==
    SubSeq(tweets, 1, IF Len(tweets) < n THEN Len(tweets) ELSE n)

\* The tail of get_latest_tweets: deduplicate, sort, truncate.
LatestOf(tweets, n) == Truncate(SortNewestFirst(RemoveDuplicates(tweets)), n)

\* `for attempt in range(self.max_retries)`: whether the loop has another
\* iteration (twitter_monitor.py 73, dingtalk.py 31, xtracker_client.py 34).
AttemptsLeft_WhileTrue(a, retries) == TRUE

AttemptsLeft_AtLeastOnce(a, retries) == a = 0 \/ a < retries

AttemptsLeft(a, retries) == a < retries

\* _make_request, in the except branch: the else of
\* `if attempt < self.max_retries - 1`, where it gives the url up.
RetryExhausted_Early(a, retries) == ~(a < retries - 2)

RetryExhausted(a, retries) == ~(a < retries - 1)

\* time.sleep(self.retry_delay * (attempt + 1)), attempt counted from 0.
RetrySleep_Doubling(delay, a) == delay * 2 ^ a

RetrySleep(delay, a) == delay * (a + 1)

\* get_latest_tweets: `if tweets:` ... `break`.
BreakLoop_Always(tweets) == TRUE

BreakLoop_Never(tweets) == FALSE

BreakLoop(tweets) == tweets # <<>>

(***************************************************************************)
(* TwitterMonitor.get_latest_tweets, one step per GET attempt.             *)
(***************************************************************************)
\* retry_delay: the constructor's default and the shortest positive delay.
RETRY_DELAY == 5

RetryDelays == {1, RETRY_DELAY}

\* The monitor between calls of get_latest_tweets.
FetchVarsIdle ==
    /\ slept = [m \in Mirrors |-> <<>>]
    /\ max_tweets = 0
    /\ urls = nitter_urls
    /\ idx = 1
    /\ attempt = 0
    /\ pc = "idle"
    /\ all_tweets = <<>>
    /\ result = <<>>
    /\ gets = [m \in Mirrors |-> 0]
    /\ fails = [m \in Mirrors |-> 0]
    /\ tried = <<>>
    /\ yielded = [m \in Mirrors |-> <<>>]
    /\ pageRecords = <<>>
    /\ returnedNone = [m \in Mirrors |-> FALSE]

InitFetchVars ==
    /\ max_retries \in 0..MaxRetries
    /\ retry_delay \in RetryDelays
    /\ FetchVarsIdle

\* get_latest_tweets is called: copy and shuffle the mirrors, enter the loop
\* and _get_tweets_from_nitter of the first mirror, up to its first GET.
StartFetch ==
    /\ pc = "idle"
    /\ \E p \in Shuffles(nitter_urls), n \in 0..MaxTweetsArg :
        /\ urls' = p
        /\ max_tweets' = n
        /\ tried' = <<p[1]>>
    /\ idx' = 1
    /\ attempt' = 0
    /\ pc' = "request"
    /\ all_tweets' = <<>>
    /\ result' = <<>>
    /\ gets' = [m \in Mirrors |-> 0]
    /\ fails' = [m \in Mirrors |-> 0]
    /\ yielded' = [m \in Mirrors |-> <<>>]
    /\ pageRecords' = <<>>
    /\ returnedNone' = [m \in Mirrors |-> FALSE]
    /\ slept' = [m \in Mirrors |-> <<>>]
    /\ UNCHANGED <<max_retries, retry_delay, serviceVars, dingVars>>

\* The rest of the for loop of get_latest_tweets once _get_tweets_from_nitter
\* returned `tweets` for urls[idx]: extend and break, or go to the next
\* mirror; after the loop, deduplicate, sort, truncate and return.
MirrorReturned(tweets) ==
    LET m == urls[idx]
        collected == IF tweets # <<>>
                     THEN all_tweets \o Tagged(tweets, m)
                     ELSE all_tweets
    IN  /\ yielded' = [yielded EXCEPT ![m] = tweets]
        /\ all_tweets' = collected
        /\ attempt' = 0
        /\ IF BreakLoop(tweets) \/ idx = Len(urls)
           THEN /\ result' = LatestOf(collected, max_tweets)
                /\ pc' = "done"
                /\ UNCHANGED <<idx, tried>>
           ELSE /\ idx' = idx + 1
                /\ tried' = Append(tried, urls[idx + 1])
                /\ pc' = "request"
                /\ UNCHANGED result

\* session.get raises a RequestException, or raise_for_status does (a
\* non-2xx status): sleep and try again, or give the url up with None.
GetFails ==
    /\ pc = "request"
    /\ AttemptsLeft(attempt, max_retries)
    /\ LET m == urls[idx]
       IN  /\ gets' = [gets EXCEPT ![m] = @ + 1]
           /\ fails' = [fails EXCEPT ![m] = @ + 1]
           /\ IF RetryExhausted(attempt, max_retries)
              THEN /\ returnedNone' = [returnedNone EXCEPT ![m] = TRUE]
                   /\ MirrorReturned(<<>>)
                   /\ UNCHANGED slept
              ELSE /\ slept' = [slept EXCEPT
                                   ![m] = Append(@, RetrySleep(retry_delay, attempt))]
                   /\ attempt' = attempt + 1
                   /\ UNCHANGED <<pc, idx, tried, all_tweets, result, yielded,
                                  returnedNone>>
    /\ UNCHANGED <<max_retries, retry_delay, max_tweets, urls, pageRecords,
                   serviceVars, dingVars>>

\* session.get returns a 2xx response: the page is parsed.
GetSucceeds ==
    /\ pc = "request"
    /\ AttemptsLeft(attempt, max_retries)
    /\ \E page \in Pages :
        /\ gets' = [gets EXCEPT ![urls[idx]] = @ + 1]
        /\ pageRecords' = IF BreakLoop(ParsedTweets(page, max_tweets))
                          THEN Records(page)
                          ELSE pageRecords
        /\ MirrorReturned(ParsedTweets(page, max_tweets))
    /\ UNCHANGED <<max_retries, retry_delay, slept, max_tweets, urls, fails,
                   returnedNone, serviceVars, dingVars>>

\* range(self.max_retries) is empty: _make_request falls off its loop and
\* returns None without a GET.
NoAttempt ==
    /\ pc = "request"
    /\ ~AttemptsLeft(attempt, max_retries)
    /\ returnedNone' = [returnedNone EXCEPT ![urls[idx]] = TRUE]
    /\ MirrorReturned(<<>>)
    /\ UNCHANGED <<max_retries, retry_delay, slept, max_tweets, urls, gets,
                   fails, pageRecords, serviceVars, dingVars>>

\* The caller has the list; the monitor is ready for the next call.
Return ==
    /\ pc = "done"
    /\ pc' = "idle"
    /\ UNCHANGED <<max_retries, retry_delay, slept, max_tweets, urls, idx,
                   attempt, all_tweets,
                   result, gets, fails, tried, yielded, pageRecords,
                   returnedNone, serviceVars, dingVars>>

(***************************************************************************)
(* DingTalkClient._send_request, one step per POST attempt.                *)
(***************************************************************************)
\* What one POST to the webhook can end in:
\*   "ok"          a 2xx response whose JSON body has errcode 0
\*   "errcode"     a 2xx response whose JSON body has a nonzero errcode
\*   "no_errcode"  a 2xx response whose JSON body has no errcode
\*   "non_2xx"     raise_for_status raises HTTPError
\*   "transport"   requests.post raises (connection error, timeout)
\*   "bad_body"    a 2xx response whose body is not a JSON object
Responses == {"ok", "errcode", "no_errcode", "non_2xx", "transport", "bad_body"}

\* `if result.get('errcode') == 0`
Accepted_MissingIsZero(r) == r \in {"ok", "no_errcode"}

Accepted(r) == r = "ok"

\* The branch of _send_request that handles a refused attempt: the else of
\* the errcode test, `except requests.exceptions.RequestException` or
\* `except Exception`.
Handler(r) ==
    IF r \in {"errcode", "no_errcode"} THEN "else"
    ELSE IF r \in {"non_2xx", "transport"} THEN "except RequestException"
    ELSE "except Exception"

\* Whether the attempt's failure stays inside _send_request.
Caught_RequestExceptionOnly(r) == Handler(r) # "except Exception"

Caught(r) == Handler(r) \in {"else", "except RequestException", "except Exception"}

\* Whether the loop goes on to the next attempt after the failure: every
\* branch falls through to the next iteration of the for loop.
Retryable_TransportOnly(r) == Handler(r) = "except RequestException"

Retryable(r) == Handler(r) \in {"else", "except RequestException", "except Exception"}

\* 2 ** attempt
RECURSIVE Pow2(_)
Pow2(n) == IF n = 0 THEN 1 ELSE 2 * Pow2(n - 1)

\* `if attempt < self.max_retries - 1: time.sleep(2 ** attempt)`, the same
\* line in all three branches.
SleepAfter_Linear(a, retries) == IF a < retries - 1 THEN <<a + 1>> ELSE <<>>

SleepAfter(a, retries) == IF a < retries - 1 THEN <<Pow2(a)>> ELSE <<>>

\* _send_request as a function of what the webhook answers to each attempt.
RECURSIVE SendLoop(_, _, _)
SendLoop(rs, a, retries) ==
    IF ~(a < retries) THEN FALSE
    ELSE IF Accepted(rs[a + 1]) THEN TRUE
    ELSE SendLoop(rs, a + 1, retries)

\* DingTalkClient(access_token, timeout): max_retries keeps its default.
DING_MAX_RETRIES == 3

\* The results of _send_request the service can see.
DeliveryResults ==
    {SendLoop(rs, 0, DING_MAX_RETRIES) :
        rs \in [1..DING_MAX_RETRIES -> Responses]}

\* `except Exception` of _send_tweet_notification and _send_stats_update.
WrapperCatches == TRUE

\* The client between calls of _send_request.
DingVarsIdle ==
    /\ msgtype = "text"
    /\ dingPc = "idle"
    /\ dingAttempt = 0
    /\ dingResult = "False"
    /\ posts = 0
    /\ responses = <<>>
    /\ dingSlept = <<>>
    /\ escaped = FALSE

InitDingVars ==
    /\ ding_max_retries \in (0..MaxRetries) \cup {DING_MAX_RETRIES}
    /\ DingVarsIdle

\* send_text_message or send_markdown_message built its payload and calls
\* _send_request.
StartSend ==
    /\ dingPc = "idle"
    /\ msgtype' \in {"text", "markdown"}
    /\ dingPc' = "sending"
    /\ dingAttempt' = 0
    /\ posts' = 0
    /\ responses' = <<>>
    /\ dingSlept' = <<>>
    /\ UNCHANGED <<ding_max_retries, dingResult, escaped, fetchVars,
                   serviceVars>>

\* One iteration of the for loop: the POST and what follows from its answer.
Post ==
    /\ dingPc = "sending"
    /\ AttemptsLeft(dingAttempt, ding_max_retries)
    /\ \E r \in Responses :
        /\ posts' = posts + 1
        /\ responses' = Append(responses, r)
        /\ IF Accepted(r)
           THEN /\ dingResult' = "True"
                /\ dingPc' = "returned"
                /\ UNCHANGED <<dingAttempt, dingSlept>>
           ELSE IF ~Caught(r)
           THEN /\ dingResult' = "raised"
                /\ dingPc' = "returned"
                /\ UNCHANGED <<dingAttempt, dingSlept>>
           ELSE /\ dingSlept' = dingSlept \o SleepAfter(dingAttempt, ding_max_retries)
                /\ dingAttempt' = dingAttempt + 1
                /\ IF Retryable(r) /\ dingAttempt + 1 < ding_max_retries
                   THEN UNCHANGED <<dingPc, dingResult>>
                   ELSE /\ dingResult' = "False"
                        /\ dingPc' = "returned"
    /\ UNCHANGED <<ding_max_retries, msgtype, escaped, fetchVars, serviceVars>>

\* range(self.max_retries) is empty: `return False` without a POST.
NoPost ==
    /\ dingPc = "sending"
    /\ ~AttemptsLeft(dingAttempt, ding_max_retries)
    /\ dingResult' = "False"
    /\ dingPc' = "returned"
    /\ UNCHANGED <<ding_max_retries, msgtype, dingAttempt, posts, responses,
                   dingSlept, escaped, fetchVars, serviceVars>>

\* _send_request is back in _send_tweet_notification or _send_stats_update,
\* which log and return to the loop over the usernames.
NotificationStepEnds ==
    /\ dingPc = "returned"
    /\ dingPc' = "idle"
    /\ escaped' = (dingResult = "raised" /\ ~WrapperCatches)
    /\ UNCHANGED <<ding_max_retries, msgtype, dingAttempt, dingResult, posts,
                   responses, dingSlept, fetchVars, serviceVars>>

(***************************************************************************)
(* XMonitorService.monitor_tweets.                                         *)
(***************************************************************************)
\* config.TWITTER_USERS: the monitored usernames.
TWITTER_USERS == <<"elonmusk">>

Users == Range(TWITTER_USERS)

\* get_latest_tweets(username, limit=5)
LIMIT == 5

\* What one call of get_latest_tweets returns when mirror m wins with `page`
\* (and [] when every mirror fails, as for the empty page).
GetLatestTweets(page, m, n) == LatestOf(Tagged(ParsedTweets(page, n), m), n)

TweetIds(tweets) == [i \in 1..Len(tweets) |-> tweets[i].tweet_id]

\* last_id = self.last_tweet_ids.get(username);
\* `if last_id and current_tweet_id == last_id`: a missing key gives None and
\* the empty string is false as well.
NoNewTweet_Inverted(ltids, username, current_tweet_id) ==
    /\ username \in DOMAIN ltids
    /\ ltids[username] # <<>>
    /\ current_tweet_id # ltids[username]

NoNewTweet(ltids, username, current_tweet_id) ==
    /\ username \in DOMAIN ltids
    /\ ltids[username] # <<>>
    /\ current_tweet_id = ltids[username]

\* latest_tweet = tweets[0]; current_tweet_id = latest_tweet.get('id');
\* self.last_tweet_ids[username] = current_tweet_id
UpdatedMarker(tweets) == tweets[1].tweet_id

\* self._send_tweet_notification(username, latest_tweet): the records a
\* notification is sent for, in order.
TweetsToNotify_All(tweets) == tweets

TweetsToNotify(tweets) == <<tweets[1]>>

\* No cycle is followed request by request.
CycleIdle ==
    /\ cyTask = "none"
    /\ cyPc = "idle"
    /\ cyUser = 1
    /\ cyMirror = 1
    /\ cyAttempt = 0
    /\ cyGets = 0
    /\ cyPosts = 0
    /\ cyNotes = 0

\* No overlapping pair of checks is under way.
ChecksIdle ==
    /\ tweetPc = "start"
    /\ tweetLocal = [current_tweet_id |-> <<>>]
    /\ statsPc = "start"
    /\ statsLocal = [stats |-> <<>>, last_stats |-> <<>>]
    /\ written = [marker |-> <<>>, snapshot |-> <<>>]
    /\ overlapped = FALSE
    /\ handedOver = [tweet |-> FALSE, stats |-> FALSE]
    /\ stateBefore = [last_tweet_ids |-> <<>>, last_stats |-> <<>>]

InitServiceVars ==
    /\ last_tweet_ids = <<>>
    /\ on_first_run_push_all \in BOOLEAN
    /\ fetched = [u \in Users |-> <<>>]
    /\ notified = [u \in Users |-> <<>>]
    /\ markerBefore = <<>>
    /\ repeat = [u \in Users |-> FALSE]
    /\ webhookOk = [u \in Users |-> FALSE]
    /\ undelivered = [u \in Users |-> {}]
    /\ last_stats = <<>>
    /\ statsFetched = [u \in Users |-> <<>>]
    /\ statsNotified = [u \in Users |-> <<>>]
    /\ statsBefore = <<>>
    /\ restartPc = "running"

\* The entry point has not been taken: one configured username, the stats
\* endpoint configured.
RunIdle ==
    /\ twitter_users = TWITTER_USERS
    /\ xtracker_url = TRUE
    /\ mode = "once"
    /\ runPc = "idle"
    /\ runIdx = 1
    /\ calls = <<>>
    /\ visited = <<>>
    /\ interruptedAt = ""
    /\ stopNotes = 0
    /\ stopDelivered = FALSE
    /\ startedAfter = FALSE
    /\ activeTasks = <<>>
    /\ healthProbes = <<>>
    /\ healthResults = <<>>
    /\ fmtTweet = <<>>
    /\ fmtMessage = <<>>
    /\ fmtSent = <<>>
    /\ deliveredBefore = [u \in Users |-> {}]
    /\ ChecksIdle
    /\ CycleIdle

\* Every list one call of get_latest_tweets(username, limit=5) can return.
FetchResults ==
    {GetLatestTweets(page, m, LIMIT) : page \in Pages, m \in Mirrors}

\* One run of monitor_tweets over all usernames. For each username the
\* timeline fetch returns a list (empty when every mirror failed) and the
\* webhook accepts or refuses what is sent to it during the check:
\* accepted[u] is what _send_request returns for a notification about u.
TweetCheck(tweets, accepted) ==
        LET skipped(u) ==
                \/ tweets[u] = <<>>
                \/ NoNewTweet(last_tweet_ids, u, tweets[u][1].tweet_id)
            changed == {u \in Users : ~skipped(u)}
            sent(u) == TweetsToNotify(tweets[u])
        IN  /\ last_tweet_ids' =
                [u \in DOMAIN last_tweet_ids \cup changed |->
                    IF u \in changed THEN UpdatedMarker(tweets[u])
                    ELSE last_tweet_ids[u]]
            /\ notified' =
                [u \in Users |->
                    IF skipped(u) THEN <<>>
                    ELSE [i \in 1..Len(sent(u)) |->
                            [tweet_id |-> sent(u)[i].tweet_id,
                             delivered |-> accepted[u]]]]
            /\ fetched' = [u \in Users |-> TweetIds(tweets[u])]
            /\ repeat' = [u \in Users |->
                            /\ tweets[u] # <<>>
                            /\ TweetIds(tweets[u]) = fetched[u]]
            /\ markerBefore' = last_tweet_ids
            /\ webhookOk' = accepted
            /\ undelivered' =
                [u \in Users |->
                    IF skipped(u) THEN undelivered[u]
                    ELSE IF accepted[u]
                    THEN undelivered[u] \ Range(TweetIds(sent(u)))
                    ELSE undelivered[u] \cup Range(TweetIds(sent(u)))]
            /\ restartPc' =
                IF restartPc = "restarted" THEN "first_cycle" ELSE "running"
            /\ UNCHANGED <<on_first_run_push_all, statsVars, runVars, fetchVars,
                           dingVars, xtVars, schedVars, healthVars, fmtVars>>

MonitorTweets ==
    \E tweets \in [Users -> FetchResults],
       accepted \in [Users -> DeliveryResults] :
        /\ TweetCheck(tweets, accepted)
        /\ UNCHANGED <<cycleVars, concVars, loopVars>>

\* The ids a notification of the last tweet check was accepted for.
DeliveredIds(u) ==
    {notified[u][i].tweet_id :
        i \in {j \in 1..Len(notified[u]) : notified[u][j].delivered}}

\* monitor_tweets, with the record of what earlier checks delivered.
MonitorTweetsRecorded ==
    \E tweets \in [Users -> FetchResults],
       accepted \in [Users -> DeliveryResults] :
        /\ TweetCheck(tweets, accepted)
        /\ deliveredBefore' =
                [u \in Users |-> deliveredBefore[u] \cup DeliveredIds(u)]
        /\ UNCHANGED <<concVars, loopVars>>

(***************************************************************************)
(* XTrackerClient: _make_request and get_user_stats.                       *)
(***************************************************************************)
\* JSON values and Python values are tagged: kind "dict" with a function
\* from keys to values, "list" with a sequence of values, "scalar" with the
\* name of a scalar, "none" for None.
None == [kind |-> "none", val |-> <<>>]

JDict(d) == [kind |-> "dict", val |-> d]

JList(l) == [kind |-> "list", val |-> l]

\* null, a number other than 0, a string that is not empty
Scalars == {[kind |-> "scalar", val |-> v] : v \in {"null", "number", "string"}}

\* The keys get_user_stats looks for, per numeric field in the order it
\* looks for them; "stats.followers" stands for data['stats']['followers'].
CandidateKeys_PlainFirst ==
    [followers |-> <<"followers", "followersCount", "stats.followers">>,
     following |-> <<"following", "followingCount", "stats.following">>,
     tweets    |-> <<"tweets", "tweetsCount", "stats.tweets">>]

CandidateKeys ==
    [followers |-> <<"followersCount", "followers", "stats.followers">>,
     following |-> <<"followingCount", "following", "stats.following">>,
     tweets    |-> <<"tweetsCount", "tweets", "stats.tweets">>]

NumericFields == {"followers", "following", "tweets"}

OptionalFields == {"verified", "description"}

PayloadKeys ==
    UNION {Range(CandidateKeys[f]) : f \in NumericFields}
        \cup OptionalFields \cup {"name"}

\* The mappings a stats response can hold: at most MaxKeys keys, every
\* value a number in 0..MaxCount.
Payloads ==
    UNION {[K -> 0..MaxCount] :
            K \in {K \in SUBSET PayloadKeys : Cardinality(K) <= MaxKeys}}

\* The mappings the elements of a list-typed response are drawn from.
ElementPayloads == {d \in Payloads : DOMAIN d \subseteq {"followers"}}

\* The bodies a 2xx answer can decode into.
Bodies ==
    {JDict(d) : d \in Payloads}
        \cup {JList(l) : l \in SeqsUpTo({JDict(d) : d \in ElementPayloads} \cup Scalars,
                                       MaxListLen)}
        \cup Scalars

\* What one GET can end in: a transport error, a status that is not 2xx, a
\* 2xx answer whose body is not JSON, or a 2xx answer with a JSON body.
XtResponses ==
    {[kind |-> k, val |-> <<>>] : k \in {"transport", "non_2xx", "undecodable"}}
        \cup Bodies

\* `if isinstance(data, list) and len(data) > 0: return data[0]
\*  elif isinstance(data, dict): return data  else: return None`
ParsedBody_LastElement(data) ==
    IF data.kind = "list" /\ Len(data.val) > 0 THEN data.val[Len(data.val)]
    ELSE IF data.kind = "dict" THEN data
    ELSE None

ParsedBody(data) ==
    IF data.kind = "list" /\ Len(data.val) > 0 THEN data.val[1]
    ELSE IF data.kind = "dict" THEN data
    ELSE None

\* The except clause an answer ends in: "RequestException" (lines 52-58) for
\* a transport error, for raise_for_status() and, depending on the version
\* of requests, for a body that is not JSON; "JSONDecodeError" (59-61)
\* otherwise for such a body; "none" for a decoded body.
XtHandler_StatusNotRetried(r, subclass) ==
    IF r.kind = "transport" THEN "RequestException"
    ELSE IF r.kind = "non_2xx" THEN "JSONDecodeError"
    ELSE IF r.kind = "undecodable"
         THEN IF subclass THEN "RequestException" ELSE "JSONDecodeError"
    ELSE "none"

XtHandler(r, subclass) ==
    IF r.kind \in {"transport", "non_2xx"} THEN "RequestException"
    ELSE IF r.kind = "undecodable"
         THEN IF subclass THEN "RequestException" ELSE "JSONDecodeError"
    ELSE "none"

\* Python's truth value: `if not data`.
Truthy(data) ==
    CASE data.kind = "none" -> FALSE
      [] data.kind = "dict" -> DOMAIN data.val # {}
      [] data.kind = "list" -> Len(data.val) > 0
      [] data.kind = "scalar" -> data.val # "null"

\* The if/elif chain for one numeric field (lines 89-96, 98-105, 107-114);
\* int() of an integer is that integer.
FirstPresent(d, field) ==
    LET keys == CandidateKeys[field]
    IN  IF keys[1] \in DOMAIN d THEN d[keys[1]]
        ELSE IF keys[2] \in DOMAIN d THEN d[keys[2]]
        ELSE IF keys[3] \in DOMAIN d THEN d[keys[3]]
        ELSE 0

\* bool(data['verified']) and str(data['description']) of a number.
BoolOf(v) == v # 0

StrOf(v) == <<"str", v>>

\* The numeric and the optional fields of the dict get_user_stats builds
\* from a mapping (username, updated_at, raw_data, the profile image, the
\* growth figures and the ratio are left out).
StatsOf(d) ==
    [f \in NumericFields \cup (OptionalFields \cap DOMAIN d) |->
        CASE f \in NumericFields -> FirstPresent(d, f)
          [] f = "verified" -> BoolOf(d[f])
          [] f = "description" -> StrOf(d[f])]

\* get_user_stats after _make_request returned `data`: None for what is
\* false in Python; for a number `'followersCount' in data` raises, which is
\* caught (lines 142-144); in a string none of the keys is found.
Normalized(data) ==
    CASE ~Truthy(data) -> <<>>
      [] data.kind = "dict" -> <<StatsOf(data.val)>>
      [] data.kind = "scalar" /\ data.val = "string" -> <<StatsOf(<<>>)>>
      [] OTHER -> <<>>

XT_MAX_RETRIES == 3

\* The client between calls of get_user_stats.
XtVarsIdle ==
    /\ xtPc = "idle"
    /\ xtAttempt = 0
    /\ xtGets = 0
    /\ xtSlept = <<>>
    /\ xtLast = None
    /\ xtData = None
    /\ xtStats = <<>>

InitXtVars ==
    /\ xt_max_retries \in (0..MaxRetries) \cup {XT_MAX_RETRIES}
    /\ jsonErrorIsRequestException \in BOOLEAN
    /\ XtVarsIdle

\* The XTracker client as the service constructs it, not fetching.
XtIdle ==
    /\ InitXtVars
    /\ xt_max_retries = XT_MAX_RETRIES
    /\ jsonErrorIsRequestException = FALSE

\* get_user_stats(username) is called and enters _make_request.
GetUserStats ==
    /\ xtPc \in {"idle", "returned"}
    /\ xtPc' = "request"
    /\ xtAttempt' = 0
    /\ xtGets' = 0
    /\ xtSlept' = <<>>
    /\ xtLast' = None
    /\ xtData' = None
    /\ xtStats' = <<>>
    /\ UNCHANGED <<xt_max_retries, jsonErrorIsRequestException, fetchVars,
                   last_tweet_ids, on_first_run_push_all, fetched, notified,
                   markerBefore, repeat, webhookOk, undelivered, statsVars,
                   restartPc, runVars, schedVars, healthVars, fmtVars, cycleVars, concVars, loopVars,
                   dingVars>>

\* _make_request returns `data` and get_user_stats goes on to its own return.
XtReturned(data) ==
    /\ xtPc' = "returned"
    /\ xtData' = data
    /\ xtStats' = Normalized(data)

\* One pass of the for loop of _make_request: one GET and its handling.
XtGet ==
    /\ xtPc = "request"
    /\ AttemptsLeft(xtAttempt, xt_max_retries)
    /\ \E r \in XtResponses :
        /\ xtGets' = xtGets + 1
        /\ xtLast' = r
        /\ CASE XtHandler(r, jsonErrorIsRequestException) = "RequestException" ->
                    IF xtAttempt < xt_max_retries - 1
                    THEN /\ xtSlept' = Append(xtSlept, Pow2(xtAttempt))
                         /\ xtAttempt' = xtAttempt + 1
                         /\ UNCHANGED <<xtPc, xtData, xtStats>>
                    ELSE /\ XtReturned(None)
                         /\ UNCHANGED <<xtAttempt, xtSlept>>
             [] XtHandler(r, jsonErrorIsRequestException) = "JSONDecodeError" ->
                    /\ XtReturned(None)
                    /\ UNCHANGED <<xtAttempt, xtSlept>>
             [] OTHER ->
                    /\ XtReturned(ParsedBody(r))
                    /\ UNCHANGED <<xtAttempt, xtSlept>>
    /\ UNCHANGED <<xt_max_retries, jsonErrorIsRequestException, fetchVars,
                   last_tweet_ids, on_first_run_push_all, fetched, notified,
                   markerBefore, repeat, webhookOk, undelivered, statsVars,
                   restartPc, runVars, schedVars, healthVars, fmtVars, cycleVars, concVars, loopVars,
                   dingVars>>

\* range(self.max_retries) is empty: the loop body never runs and
\* _make_request returns None.
XtNoAttempt ==
    /\ xtPc = "request"
    /\ ~AttemptsLeft(xtAttempt, xt_max_retries)
    /\ XtReturned(None)
    /\ UNCHANGED <<xt_max_retries, jsonErrorIsRequestException, xtAttempt,
                   xtGets, xtSlept, xtLast, fetchVars,
                   last_tweet_ids, on_first_run_push_all, fetched, notified,
                   markerBefore, repeat, webhookOk, undelivered, statsVars,
                   restartPc, runVars, schedVars, healthVars, fmtVars, cycleVars, concVars, loopVars,
                   dingVars>>

(***************************************************************************)
(* XMonitorService.monitor_xtracker_stats.                                 *)
(***************************************************************************)
\* The numeric fields of the dict get_user_stats returns.
Snapshots ==
    [followers : 0..MaxCount, following : 0..MaxCount, tweets : 0..MaxCount]

\* What get_user_stats returns: None (the empty sequence here) or a dict.
StatsResults == {<<>>} \cup {<<s>> : s \in Snapshots}

\* last_stats = self.last_stats.get(username, {}): the stored dict, or the
\* empty dict (the empty sequence here).
LastStats(ls, username) ==
    IF username \in DOMAIN ls THEN <<ls[username]>> ELSE <<>>

\* stats.get('followers', 0), of a stored or fetched dict or of {}.
GetOrZero(d, field) == IF d = <<>> THEN 0 ELSE d[1][field]

\* `if current_followers != last_followers`
StatsChanged_AnyField(ls, username, stats) ==
    \/ GetOrZero(<<stats>>, "followers") # GetOrZero(LastStats(ls, username), "followers")
    \/ GetOrZero(<<stats>>, "following") # GetOrZero(LastStats(ls, username), "following")

StatsChanged(ls, username, stats) ==
    GetOrZero(<<stats>>, "followers") # GetOrZero(LastStats(ls, username), "followers")

\* _send_stats_update(username, stats, last_stats): the differences it
\* computes and the two dicts it hands to the DingTalk client.
StatsUpdate(username, current_stats, old_stats) ==
    [username |-> username,
     current |-> current_stats,
     last |-> old_stats,
     followers_change |->
        GetOrZero(<<current_stats>>, "followers") - GetOrZero(old_stats, "followers"),
     following_change |->
        GetOrZero(<<current_stats>>, "following") - GetOrZero(old_stats, "following"),
     tweets_change |->
        GetOrZero(<<current_stats>>, "tweets") - GetOrZero(old_stats, "tweets")]

\* dingtalk_client.send_xtracker_stats_update(username, current, last):
\* composes the message from both snapshots and delivers it through
\* _send_request, whose result `sent` is.
send_xtracker_stats_update(update, sent) ==
    [update |-> update, delivered |-> sent]

\* One run of monitor_xtracker_stats over all usernames, with XTRACKER_API_URL
\* configured. For each username get_user_stats returns None or a dict and
\* the webhook accepts or refuses what is sent to it.
MonitorXtrackerStats ==
    \E got \in [Users -> StatsResults], accepted \in [Users -> DeliveryResults] :
        LET changed(u) ==
                /\ got[u] # <<>>
                /\ StatsChanged(last_stats, u, got[u][1])
            replaced == {u \in Users : changed(u)}
        IN  /\ statsNotified' =
                [u \in Users |->
                    IF changed(u)
                    THEN <<send_xtracker_stats_update(
                             StatsUpdate(u, got[u][1], LastStats(last_stats, u)),
                             accepted[u])>>
                    ELSE <<>>]
            /\ last_stats' =
                [u \in DOMAIN last_stats \cup replaced |->
                    IF u \in replaced THEN got[u][1] ELSE last_stats[u]]
            /\ statsFetched' = got
            /\ statsBefore' = last_stats
            /\ restartPc' = "running"
            /\ UNCHANGED <<last_tweet_ids, on_first_run_push_all, fetched,
                           notified, markerBefore, repeat, webhookOk,
                           undelivered, runVars, fetchVars, dingVars, otherVars>>

(***************************************************************************)
(* The loops over TWITTER_USERS and XMonitorService.run_once, one step per *)
(* username.                                                               *)
(***************************************************************************)
UserNames == {"elonmusk", "sama"}

\* The lists TWITTER_USERS can hold: usernames without repetition.
UserLists ==
    {l \in SeqsUpTo(UserNames, MaxUsers) :
        \A i, j \in 1..Len(l) : l[i] = l[j] => i = j}

\* Where, while one username is processed, an exception is raised: nowhere,
\* in the fetch (get_latest_tweets, get_user_stats), in the detection
\* (between the fetch and the notification) or in the notification.
Raises == {"none", "fetch", "detect", "notify"}

\* `except Exception as e` inside the for loop of monitor_tweets and of
\* monitor_xtracker_stats: what reaches it is logged and the loop goes on.
CaughtInLoop_NotDetect(where) == where # "detect"

CaughtInLoop(where) == TRUE

\* An exception leaves the check: it was raised, the notification method
\* did not swallow it and the handler of the loop did not catch it.
Propagates(where) ==
    /\ where # "none"
    /\ ~(where = "notify" /\ WrapperCatches)
    /\ ~CaughtInLoop(where)

\* dict[username] = value
DictSet(d, username, value) ==
    [x \in DOMAIN d \cup {username} |-> IF x = username THEN value ELSE d[x]]

\* The body of run_once: the checks it calls, in order.
RunOnceCalls_TweetsOnly == <<"monitor_tweets">>

RunOnceCalls == <<"monitor_tweets", "monitor_xtracker_stats">>

\* Where a check is once it is called: monitor_xtracker_stats returns at
\* once ("skipped") when XTRACKER_API_URL is not set.
Entered(call, configured) ==
    IF call = "monitor_tweets" THEN "tweets"
    ELSE IF configured THEN "stats" ELSE "skipped"

\* main() with --once enters run_once, which calls its first check; the
\* process ends when run_once has returned.
RunOnce ==
    /\ mode = "once"
    /\ runPc = "idle"
    /\ runPc' = Entered(RunOnceCalls[1], xtracker_url)
    /\ runIdx' = 1
    /\ calls' = <<RunOnceCalls[1]>>
    /\ visited' = <<>>
    /\ UNCHANGED <<twitter_users, xtracker_url, mode, last_tweet_ids,
                   on_first_run_push_all, fetched, notified, markerBefore,
                   repeat, webhookOk, undelivered, statsVars, restartPc,
                   fetchVars, dingVars, otherVars>>

\* The body of the for loop of monitor_tweets for one username.
TweetsStep ==
    /\ runPc = "tweets"
    /\ runIdx <= Len(twitter_users)
    /\ \E tweets \in FetchResults, where \in Raises :
        LET username == twitter_users[runIdx]
            skipped ==
                \/ where \in {"fetch", "detect"}
                \/ tweets = <<>>
                \/ NoNewTweet(last_tweet_ids, username, tweets[1].tweet_id)
        IN  /\ where = "notify" => ~skipped
            /\ last_tweet_ids' =
                IF skipped THEN last_tweet_ids
                ELSE DictSet(last_tweet_ids, username, UpdatedMarker(tweets))
            /\ visited' = Append(visited, [check |-> "monitor_tweets",
                                          username |-> username,
                                          raised |-> where])
            /\ IF Propagates(where)
               THEN runPc' = "raised" /\ UNCHANGED runIdx
               ELSE runIdx' = runIdx + 1 /\ UNCHANGED runPc
    /\ UNCHANGED <<twitter_users, xtracker_url, mode, calls,
                   on_first_run_push_all, fetched, notified, markerBefore,
                   repeat, webhookOk, undelivered, statsVars, restartPc,
                   fetchVars, dingVars, otherVars>>

\* The body of the for loop of monitor_xtracker_stats for one username.
StatsStep ==
    /\ runPc = "stats"
    /\ runIdx <= Len(twitter_users)
    /\ \E got \in StatsResults, where \in Raises :
        LET username == twitter_users[runIdx]
            changed ==
                /\ where \notin {"fetch", "detect"}
                /\ got # <<>>
                /\ StatsChanged(last_stats, username, got[1])
        IN  /\ where = "notify" => changed
            /\ last_stats' =
                IF changed /\ ~Propagates(where)
                THEN DictSet(last_stats, username, got[1])
                ELSE last_stats
            /\ visited' = Append(visited, [check |-> "monitor_xtracker_stats",
                                          username |-> username,
                                          raised |-> where])
            /\ IF Propagates(where)
               THEN runPc' = "raised" /\ UNCHANGED runIdx
               ELSE runIdx' = runIdx + 1 /\ UNCHANGED runPc
    /\ UNCHANGED <<twitter_users, xtracker_url, mode, calls, last_tweet_ids,
                   on_first_run_push_all, fetched, notified, markerBefore,
                   repeat, webhookOk, undelivered, statsFetched, statsNotified,
                   statsBefore, restartPc, fetchVars, dingVars, otherVars>>

\* A check returns to run_once, which calls its next check or returns.
CheckReturns ==
    /\ mode = "once"
    /\ \/ runPc \in {"tweets", "stats"} /\ runIdx > Len(twitter_users)
       \/ runPc = "skipped"
    /\ IF Len(calls) < Len(RunOnceCalls)
       THEN /\ calls' = Append(calls, RunOnceCalls[Len(calls) + 1])
            /\ runPc' = Entered(RunOnceCalls[Len(calls) + 1], xtracker_url)
            /\ runIdx' = 1
       ELSE /\ runPc' = "done"
            /\ UNCHANGED <<calls, runIdx>>
    /\ UNCHANGED <<twitter_users, xtracker_url, mode, visited, last_tweet_ids,
                   on_first_run_push_all, fetched, notified, markerBefore,
                   repeat, webhookOk, undelivered, statsVars, restartPc,
                   fetchVars, dingVars, otherVars>>

(***************************************************************************)
(* XMonitorService.run_schedule: the startup notification, the loop around *)
(* schedule.run_pending(), the interrupt.                                  *)
(***************************************************************************)
\* The jobs run_schedule registers: the stats check only when
\* XTRACKER_API_URL is set.
ScheduledTasks(configured) ==
    IF configured THEN {"monitor_tweets", "monitor_xtracker_stats"}
    ELSE {"monitor_tweets"}

\* `except KeyboardInterrupt` around the while loop: the loop's own sleep
\* and the tasks run_pending calls are all inside the try block, and no
\* handler below it catches KeyboardInterrupt.
InterruptCaught_IdleOnly(at) == at = "waiting"

InterruptCaught(at) == at \in {"waiting", "tweets", "stats"}

\* main() without a flag enters run_schedule: the startup notification is
\* sent (its result is not looked at), the jobs are registered and the loop
\* is entered.
RunSchedule ==
    /\ mode = "schedule"
    /\ runPc = "idle"
    /\ runPc' = "waiting"
    /\ UNCHANGED <<twitter_users, xtracker_url, mode, runIdx, calls, visited,
                   last_tweet_ids, on_first_run_push_all, fetched, notified,
                   markerBefore, repeat, webhookOk, undelivered, statsVars,
                   restartPc, fetchVars, dingVars, otherVars>>

\* Where a job can start: run_pending is called from the while loop only
\* (line 209) and calls a due job itself, returning when the job has
\* returned; no thread is started anywhere.
JobCanStart_OwnThread(at) == at \in {"waiting", "tweets", "stats"}

JobCanStart(at) == at = "waiting"

\* schedule.run_pending() finds a job due and calls it.
TaskStarts ==
    /\ mode = "schedule"
    /\ JobCanStart(runPc)
    /\ \E task \in ScheduledTasks(xtracker_url) :
        /\ runPc' = Entered(task, xtracker_url)
        /\ calls' = <<task>>
        /\ activeTasks' = Append(activeTasks, task)
    /\ runIdx' = 1
    /\ visited' = <<>>
    /\ startedAfter' = (startedAfter \/ interruptedAt # "")
    /\ UNCHANGED <<twitter_users, xtracker_url, mode, last_tweet_ids,
                   on_first_run_push_all, fetched, notified, markerBefore,
                   repeat, webhookOk, undelivered, statsVars, restartPc,
                   fetchVars, dingVars, xtVars, healthVars, fmtVars, cycleVars, concVars, loopVars, interruptedAt, stopNotes,
                   stopDelivered>>

\* The job returns to run_pending and the loop sleeps again.
TaskReturns ==
    /\ mode = "schedule"
    /\ runPc \in {"tweets", "stats"}
    /\ runIdx > Len(twitter_users)
    /\ runPc' = "waiting"
    /\ activeTasks' = SubSeq(activeTasks, 1, Len(activeTasks) - 1)
    /\ UNCHANGED <<twitter_users, xtracker_url, mode, runIdx, calls, visited,
                   last_tweet_ids, on_first_run_push_all, fetched, notified,
                   markerBefore, repeat, webhookOk, undelivered, statsVars,
                   restartPc, fetchVars, dingVars, xtVars, healthVars, fmtVars,
                   cycleVars, concVars, loopVars, interruptedAt, stopNotes, stopDelivered,
                   startedAfter>>

\* KeyboardInterrupt is raised in the loop or in a job. When the except
\* clause of run_schedule catches it the stopping notification is next;
\* otherwise the exception leaves run_schedule.
Interrupt ==
    /\ mode = "schedule"
    /\ runPc \in {"waiting", "tweets", "stats"}
    /\ interruptedAt' = runPc
    /\ activeTasks' = <<>>
    /\ runPc' = IF InterruptCaught(runPc) THEN "stopping" ELSE "raised"
    /\ UNCHANGED <<twitter_users, xtracker_url, mode, runIdx, calls, visited,
                   last_tweet_ids, on_first_run_push_all, fetched, notified,
                   markerBefore, repeat, webhookOk, undelivered, statsVars,
                   restartPc, fetchVars, dingVars, xtVars, healthVars, fmtVars, cycleVars, concVars, loopVars, stopNotes,
                   stopDelivered, startedAfter>>

\* send_text_message("... 服务已停止"): _send_request answers True or False
\* and raises nothing; run_schedule does not look at the answer and returns.
StopNotification ==
    /\ runPc = "stopping"
    /\ \E accepted \in DeliveryResults :
        stopDelivered' = accepted
    /\ stopNotes' = stopNotes + 1
    /\ runPc' = "exited"
    /\ UNCHANGED <<twitter_users, xtracker_url, mode, runIdx, calls, visited,
                   last_tweet_ids, on_first_run_push_all, fetched, notified,
                   markerBefore, repeat, webhookOk, undelivered, statsVars,
                   restartPc, fetchVars, dingVars, xtVars, healthVars, fmtVars, cycleVars, concVars, loopVars, interruptedAt,
                   startedAfter, activeTasks>>

(***************************************************************************)
(* XMonitorService.health_check.                                           *)
(***************************************************************************)
\* health_check has not run and no notification has been formatted.
NothingFormatted ==
    /\ healthProbes = <<>>
    /\ healthResults = <<>>
    /\ fmtTweet = <<>>
    /\ fmtMessage = <<>>
    /\ fmtSent = <<>>
    /\ deliveredBefore = [u \in Users |-> {}]
    /\ ChecksIdle
    /\ CycleIdle

\* Every list get_latest_tweets('elonmusk', limit=1) can return.
HealthFetchResults ==
    {GetLatestTweets(page, m, 1) : page \in Pages, m \in Mirrors}

\* 'ok' if tweets else 'warning'; f'error: {e}' when the fetch raised.
TwitterComponent(tweets, raised) ==
    IF raised THEN "error"
    ELSE IF tweets # <<>> THEN "ok" ELSE "warning"

\* XTrackerClient.test_connection: `stats and 'followers' in stats`, and
\* False when get_user_stats raised; get_user_stats always sets 'followers'.
TestConnection(stats, raised) == ~raised /\ stats # <<>>

\* 'ok' if success else f'error: {message}'; 'disabled' without
\* XTRACKER_API_URL.
XtrackerComponent(configured, success) ==
    IF ~configured THEN "disabled"
    ELSE IF success THEN "ok" ELSE "error"

\* send_text_message(...) then 'ok': the value it returns is not looked at
\* and it raises nothing.
DingtalkComponent(accepted) == "ok"

\* `if any('error' in str(v) for v in results['components'].values())`
OverallStatus(components) ==
    IF \E c \in DOMAIN components : components[c] = "error"
    THEN "degraded"
    ELSE "healthy"

\* main() --health: one run of health_check.
HealthCheck ==
    /\ mode = "health"
    /\ runPc = "idle"
    /\ \E tweets \in HealthFetchResults, fetchRaised \in BOOLEAN,
          stats \in StatsResults, statsRaised \in BOOLEAN,
          accepted \in DeliveryResults :
        LET components ==
                [twitter_monitor |-> TwitterComponent(tweets, fetchRaised),
                 xtracker |-> XtrackerComponent(xtracker_url,
                                                TestConnection(stats, statsRaised)),
                 dingtalk |-> DingtalkComponent(accepted)]
        IN  /\ fetchRaised => tweets = <<>>
            /\ statsRaised => stats = <<>>
            /\ ~xtracker_url => (stats = <<>> /\ ~statsRaised)
            /\ healthProbes' =
                <<[timeline |-> ~fetchRaised /\ tweets # <<>>,
                   stats |-> TestConnection(stats, statsRaised),
                   webhook |-> accepted,
                   tweets |-> TweetIds(tweets),
                   snapshot |-> stats]>>
            /\ healthResults' =
                <<[status |-> OverallStatus(components), components |-> components]>>
    /\ runPc' = "done"
    /\ UNCHANGED <<twitter_users, xtracker_url, mode, runIdx, calls, visited,
                   last_tweet_ids, on_first_run_push_all, fetched, notified,
                   markerBefore, repeat, webhookOk, undelivered, statsVars,
                   restartPc, fetchVars, dingVars, xtVars, schedVars, fmtVars, cycleVars, concVars, loopVars>>

(***************************************************************************)
(* The tweet notification: XMonitorService._send_tweet_notification and    *)
(* DingTalkClient.send_tweet_notification.                                 *)
(***************************************************************************)
\* `if len(content) > 300: content = content[:300] + "..."`
CONTENT_BUDGET == 300

\* media_urls[:3]
MEDIA_LIMIT == 3

\* A character of a tweet's content is its position in the content, and
\* the character "." is 0.
Ellipsis == <<0, 0, 0>>

ContentOfLength(n) == [i \in 1..n |-> i]

ContentLengths ==
    (0..MaxOver) \cup ((CONTENT_BUDGET - MaxOver)..(CONTENT_BUDGET + MaxOver))

\* The records a notification is sent for: content, url ("" when missing)
\* and media urls.
TweetsToFormat ==
    [content : {ContentOfLength(n) : n \in ContentLengths},
     url : {"", "https://nitter/status"},
     media_urls : {[i \in 1..k |-> i] : k \in 0..(MEDIA_LIMIT + MaxOver)}]

\* The content _send_tweet_notification puts into its local `message`.
Truncated(content) ==
    IF Len(content) > CONTENT_BUDGET
    THEN SubSeq(content, 1, CONTENT_BUDGET) \o Ellipsis
    ELSE content

\* The content part of the markdown DingTalkClient.send_tweet_notification
\* builds: f"**内容**: {tweet.get('content', 'No content')}".
SentContent(tweet) == tweet.content

\* The markdown message send_tweet_notification hands to
\* send_markdown_message: the content, the link when the record has a url,
\* the first media urls.
Markdown(tweet) ==
    [content |-> SentContent(tweet),
     link |-> IF tweet.url # "" THEN <<tweet.url>> ELSE <<>>,
     media |-> SubSeq(tweet.media_urls, 1,
                      IF Len(tweet.media_urls) < MEDIA_LIMIT
                      THEN Len(tweet.media_urls) ELSE MEDIA_LIMIT)]

\* _send_tweet_notification(username, tweet) for one new tweet: `message`
\* is built and dropped, the record goes to the DingTalk client, whose
\* answer is not looked at.
SendTweetNotification ==
    /\ \E tweet \in TweetsToFormat, accepted \in DeliveryResults :
        /\ fmtTweet' = <<tweet>>
        /\ fmtMessage' = <<Truncated(tweet.content)>>
        /\ fmtSent' = <<[markdown |-> Markdown(tweet), delivered |-> accepted]>>
    /\ UNCHANGED <<runVars, last_tweet_ids, on_first_run_push_all, fetched,
                   notified, markerBefore, repeat, webhookOk, undelivered,
                   statsVars, restartPc, fetchVars, dingVars, xtVars, schedVars,
                   healthVars, cycleVars, concVars, loopVars>>

(***************************************************************************)
(* The two checks overlapping (a concurrent design): monitor_tweets and    *)
(* monitor_xtracker_stats for one username, one step per access to the     *)
(* service's state, to the network or to the webhook, in any interleaving. *)
(***************************************************************************)
\* The username both checks work on.
OverlapUser == TWITTER_USERS[1]

\* The service's two dicts as they are now.
ServiceState == [last_tweet_ids |-> last_tweet_ids, last_stats |-> last_stats]

\* self.<attr>[username] = value: an item assignment on one of the two
\* dicts (self.last_tweet_ids at line 94, self.last_stats at line 156).
Store_Rebuild(state, attr, username, value) ==
    [a \in DOMAIN state |->
        IF a = attr THEN DictSet(state[a], username, value) ELSE <<>>]

Store_Both(state, attr, username, value) ==
    [a \in DOMAIN state |-> DictSet(state[a], username, value)]

Store(state, attr, username, value) ==
    [state EXCEPT ![attr] = DictSet(@, username, value)]

UnderWay(at) == at \notin {"start", "done"}

\* What no step of the overlapping checks touches.
overlapFrame == <<on_first_run_push_all, fetched, notified, markerBefore,
                  repeat, webhookOk, undelivered, statsFetched, statsNotified,
                  statsBefore, restartPc, runVars, fetchVars, dingVars, xtVars,
                  schedVars, healthVars, fmtVars, cycleVars, loopVars,
                  stateBefore>>

\* tweets = get_latest_tweets(...); `if not tweets: continue`;
\* current_tweet_id = tweets[0].get('id').
TweetFetch ==
    /\ tweetPc = "start"
    /\ \E tweets \in FetchResults :
        IF tweets = <<>>
        THEN /\ tweetPc' = "done"
             /\ UNCHANGED tweetLocal
        ELSE /\ tweetPc' = "fetched"
             /\ tweetLocal' = [current_tweet_id |-> <<tweets[1].tweet_id>>]
    /\ overlapped' = (overlapped \/ UnderWay(statsPc))
    /\ UNCHANGED <<last_tweet_ids, last_stats, statsPc, statsLocal, written,
                   handedOver, overlapFrame>>

\* last_id = self.last_tweet_ids.get(username) and the comparison.
TweetRead ==
    /\ tweetPc = "fetched"
    /\ tweetPc' =
            IF NoNewTweet(last_tweet_ids, OverlapUser,
                          tweetLocal.current_tweet_id[1])
            THEN "done" ELSE "write"
    /\ overlapped' = (overlapped \/ UnderWay(statsPc))
    /\ UNCHANGED <<last_tweet_ids, last_stats, tweetLocal, statsPc, statsLocal,
                   written, handedOver, overlapFrame>>

\* self.last_tweet_ids[username] = current_tweet_id
TweetWrite ==
    /\ tweetPc = "write"
    /\ LET new == Store(ServiceState, "last_tweet_ids", OverlapUser,
                        tweetLocal.current_tweet_id[1])
       IN  /\ last_tweet_ids' = new.last_tweet_ids
           /\ last_stats' = new.last_stats
    /\ written' = [written EXCEPT !.marker = tweetLocal.current_tweet_id]
    /\ tweetPc' = "notify"
    /\ overlapped' = (overlapped \/ UnderWay(statsPc))
    /\ UNCHANGED <<tweetLocal, statsPc, statsLocal, handedOver, overlapFrame>>

\* self._send_tweet_notification(username, latest_tweet), whatever the
\* webhook answers.
TweetNotify ==
    /\ tweetPc = "notify"
    /\ tweetPc' = "done"
    /\ handedOver' = [handedOver EXCEPT !.tweet = TRUE]
    /\ overlapped' = (overlapped \/ UnderWay(statsPc))
    /\ UNCHANGED <<last_tweet_ids, last_stats, tweetLocal, statsPc, statsLocal,
                   written, overlapFrame>>

\* stats = get_user_stats(username); `if not stats: continue`.
StatsFetch ==
    /\ statsPc = "start"
    /\ \E got \in StatsResults :
        IF got = <<>>
        THEN /\ statsPc' = "done"
             /\ UNCHANGED statsLocal
        ELSE /\ statsPc' = "fetched"
             /\ statsLocal' = [stats |-> got, last_stats |-> <<>>]
    /\ overlapped' = (overlapped \/ UnderWay(tweetPc))
    /\ UNCHANGED <<last_tweet_ids, last_stats, tweetPc, tweetLocal, written,
                   handedOver, overlapFrame>>

\* last_stats = self.last_stats.get(username, {}) and the comparison of the
\* follower counts.
StatsRead ==
    /\ statsPc = "fetched"
    /\ statsLocal' = [statsLocal EXCEPT
                        !.last_stats = LastStats(last_stats, OverlapUser)]
    /\ statsPc' =
            IF StatsChanged(last_stats, OverlapUser, statsLocal.stats[1])
            THEN "notify" ELSE "done"
    /\ overlapped' = (overlapped \/ UnderWay(tweetPc))
    /\ UNCHANGED <<last_tweet_ids, last_stats, tweetPc, tweetLocal, written,
                   handedOver, overlapFrame>>

\* self._send_stats_update(username, stats, last_stats), whatever the
\* webhook answers.
StatsNotify ==
    /\ statsPc = "notify"
    /\ statsPc' = "write"
    /\ handedOver' = [handedOver EXCEPT !.stats = TRUE]
    /\ overlapped' = (overlapped \/ UnderWay(tweetPc))
    /\ UNCHANGED <<last_tweet_ids, last_stats, tweetPc, tweetLocal, statsLocal,
                   written, overlapFrame>>

\* self.last_stats[username] = stats.copy()
StatsWrite ==
    /\ statsPc = "write"
    /\ LET new == Store(ServiceState, "last_stats", OverlapUser,
                        statsLocal.stats[1])
       IN  /\ last_tweet_ids' = new.last_tweet_ids
           /\ last_stats' = new.last_stats
    /\ written' = [written EXCEPT !.snapshot = statsLocal.stats]
    /\ statsPc' = "done"
    /\ overlapped' = (overlapped \/ UnderWay(tweetPc))
    /\ UNCHANGED <<tweetPc, tweetLocal, statsLocal, handedOver, overlapFrame>>

\* Both checks have returned; the next pair starts.
ChecksStart ==
    /\ tweetPc = "done"
    /\ statsPc = "done"
    /\ tweetPc' = "start"
    /\ tweetLocal' = [current_tweet_id |-> <<>>]
    /\ statsPc' = "start"
    /\ statsLocal' = [stats |-> <<>>, last_stats |-> <<>>]
    /\ written' = [marker |-> <<>>, snapshot |-> <<>>]
    /\ overlapped' = FALSE
    /\ handedOver' = [tweet |-> FALSE, stats |-> FALSE]
    /\ stateBefore' = ServiceState
    /\ UNCHANGED <<last_tweet_ids, last_stats, on_first_run_push_all, fetched,
                   notified, markerBefore, repeat, webhookOk, undelivered,
                   statsFetched, statsNotified, statsBefore, restartPc,
                   runVars, fetchVars, dingVars, xtVars, schedVars, healthVars,
                   fmtVars, cycleVars, loopVars>>

(***************************************************************************)
(* One cycle of a check request by request: the for loop over              *)
(* TWITTER_USERS, inside it the loop over the mirrors and the retry loop   *)
(* of _make_request, then the retry loop of _send_request for the          *)
(* notification. Only the positions of the loops and the numbers of        *)
(* requests are kept.                                                      *)
(***************************************************************************)
\* What a timeline GET can end in: a failure _make_request retries, a page
\* no record is parsed from, a page with records.
GetOutcomes == {"fail", "empty", "records"}

\* What a stats GET can end in: a failure _make_request retries, an answer
\* get_user_stats returns None for, a snapshot.
StatsOutcomes == {"fail", "none", "stats"}

\* The loop over the usernames goes to its next username or ends.
NextUser ==
    IF cyUser < Len(twitter_users)
    THEN [pc |-> "get", user |-> cyUser + 1, mirror |-> 1, attempt |-> 0]
    ELSE [pc |-> "done", user |-> cyUser, mirror |-> 1, attempt |-> 0]

\* The loop over the mirrors goes to its next mirror; after the last one
\* get_latest_tweets returns [] and monitor_tweets continues.
NextMirror ==
    IF cyMirror < Len(nitter_urls)
    THEN [pc |-> "get", user |-> cyUser, mirror |-> cyMirror + 1, attempt |-> 0]
    ELSE NextUser

NextAttempt ==
    [pc |-> cyPc, user |-> cyUser, mirror |-> cyMirror, attempt |-> cyAttempt + 1]

Notify == [pc |-> "post", user |-> cyUser, mirror |-> 1, attempt |-> 0]

Goto(pos) ==
    /\ cyPc' = pos.pc
    /\ cyUser' = pos.user
    /\ cyMirror' = pos.mirror
    /\ cyAttempt' = pos.attempt

\* What no step of the cycle touches.
loopFrame == <<fetchVars, dingVars, last_tweet_ids, on_first_run_push_all,
               fetched, notified, markerBefore, repeat, webhookOk, undelivered,
               statsVars, restartPc, runVars, xtVars, schedVars, healthVars,
               fmtVars, cycleVars, concVars>>

\* The scheduler calls a check.
CycleStarts ==
    /\ cyPc \in {"idle", "done"}
    /\ cyTask' \in ScheduledTasks(xtracker_url)
    /\ cyPc' = IF twitter_users = <<>> THEN "done" ELSE "get"
    /\ cyUser' = 1
    /\ cyMirror' = 1
    /\ cyAttempt' = 0
    /\ cyGets' = 0
    /\ cyPosts' = 0
    /\ cyNotes' = 0
    /\ UNCHANGED loopFrame

\* monitor_tweets: one iteration of the retry loop of
\* TwitterMonitor._make_request for the current username and mirror, and
\* what get_latest_tweets and monitor_tweets do when it has returned.
CycleTimelineGet ==
    /\ cyTask = "monitor_tweets"
    /\ cyPc = "get"
    /\ IF AttemptsLeft(cyAttempt, max_retries)
       THEN /\ cyGets' = cyGets + 1
            /\ \E outcome \in GetOutcomes, isNew \in BOOLEAN :
                /\ Goto(CASE outcome = "fail" ->
                                IF RetryExhausted(cyAttempt, max_retries)
                                THEN NextMirror ELSE NextAttempt
                          [] outcome = "empty" -> NextMirror
                          [] outcome = "records" ->
                                IF isNew THEN Notify ELSE NextUser)
                /\ cyNotes' = IF outcome = "records" /\ isNew
                              THEN cyNotes + 1 ELSE cyNotes
       ELSE /\ Goto(NextMirror)
            /\ UNCHANGED <<cyGets, cyNotes>>
    /\ UNCHANGED <<cyTask, cyPosts, loopFrame>>

\* monitor_xtracker_stats: one iteration of the retry loop of
\* XTrackerClient._make_request for the current username, and what
\* monitor_xtracker_stats does when get_user_stats has returned.
CycleStatsGet ==
    /\ cyTask = "monitor_xtracker_stats"
    /\ cyPc = "get"
    /\ IF AttemptsLeft(cyAttempt, xt_max_retries)
       THEN /\ cyGets' = cyGets + 1
            /\ \E outcome \in StatsOutcomes, changed \in BOOLEAN :
                /\ Goto(CASE outcome = "fail" ->
                                IF cyAttempt < xt_max_retries - 1
                                THEN NextAttempt ELSE NextUser
                          [] outcome = "none" -> NextUser
                          [] outcome = "stats" ->
                                IF changed THEN Notify ELSE NextUser)
                /\ cyNotes' = IF outcome = "stats" /\ changed
                              THEN cyNotes + 1 ELSE cyNotes
       ELSE /\ Goto(NextUser)
            /\ UNCHANGED <<cyGets, cyNotes>>
    /\ UNCHANGED <<cyTask, cyPosts, loopFrame>>

\* One iteration of the retry loop of DingTalkClient._send_request for the
\* notification of the current username; when it has returned the loop
\* over the usernames goes on.
CyclePost ==
    /\ cyPc = "post"
    /\ IF AttemptsLeft(cyAttempt, ding_max_retries)
       THEN /\ cyPosts' = cyPosts + 1
            /\ \E r \in Responses :
                Goto(IF Accepted(r) THEN NextUser ELSE NextAttempt)
       ELSE /\ Goto(NextUser)
            /\ UNCHANGED cyPosts
    /\ UNCHANGED <<cyTask, cyGets, cyNotes, loopFrame>>

(***************************************************************************)
(* Process restart: XMonitorService.__init__ runs again.                   *)
(***************************************************************************)
\* What __init__ assigns to self.last_tweet_ids and self.last_stats: empty
\* dicts. Nothing is read from STATE_DIR or from anywhere else.
InitialState == <<>>

\* The process stops and starts again. The accounts' timelines and what was
\* sent before are the world's and stay as they were.
Restart ==
    /\ last_tweet_ids' = InitialState
    /\ last_stats' = InitialState
    /\ markerBefore' = last_tweet_ids
    /\ statsBefore' = last_stats
    /\ restartPc' = "restarted"
    /\ UNCHANGED <<on_first_run_push_all, fetched, notified, repeat, webhookOk,
                   undelivered, statsFetched, statsNotified, runVars, fetchVars,
                   dingVars, otherVars>>

(***************************************************************************)
(* Specifications.                                                         *)
(***************************************************************************)
\* The fetch on its own: a monitor that is called again and again.
\* The DingTalk client as the service constructs it, not sending.
DingIdle ==
    /\ InitDingVars
    /\ ding_max_retries = DING_MAX_RETRIES

InitFetch ==
    /\ InitFetchVars
    /\ InitServiceVars
    /\ RunIdle
    /\ XtIdle
    /\ on_first_run_push_all = FALSE
    /\ DingIdle

NextFetch ==
    \/ StartFetch
    \/ GetFails
    \/ GetSucceeds
    \/ NoAttempt
    \/ Return

SpecFetch == InitFetch /\ [][NextFetch]_vars

\* The tweet check on its own: one cycle after another.
InitTweets ==
    /\ InitFetchVars
    /\ max_retries = MaxRetries
    /\ retry_delay = RETRY_DELAY
    /\ InitServiceVars
    /\ RunIdle
    /\ XtIdle
    /\ DingIdle

NextTweets == MonitorTweets

\* The cycles of the two checks, request by request. Every request is
\* answered or times out (each carries a timeout), so the retry loop a
\* cycle is in goes on.
InitLoops ==
    /\ InitFetchVars
    /\ retry_delay = RETRY_DELAY
    /\ InitServiceVars
    /\ on_first_run_push_all = FALSE
    /\ InitDingVars
    /\ InitXtVars
    /\ jsonErrorIsRequestException = FALSE
    /\ twitter_users \in UserLists
    /\ xtracker_url = TRUE
    /\ mode = "schedule"
    /\ runPc = "idle"
    /\ runIdx = 1
    /\ calls = <<>>
    /\ visited = <<>>
    /\ interruptedAt = ""
    /\ stopNotes = 0
    /\ stopDelivered = FALSE
    /\ startedAfter = FALSE
    /\ activeTasks = <<>>
    /\ NothingFormatted

NextLoops ==
    \/ CycleStarts
    \/ CycleTimelineGet
    \/ CycleStatsGet
    \/ CyclePost

SpecLoops ==
    /\ InitLoops
    /\ [][NextLoops]_vars
    /\ WF_vars(CycleTimelineGet)
    /\ WF_vars(CycleStatsGet)
    /\ WF_vars(CyclePost)

\* A tweet check and a stats check of one username, overlapping.
InitOverlap ==
    /\ InitTweets
    /\ on_first_run_push_all = FALSE

NextOverlap ==
    \/ TweetFetch
    \/ TweetRead
    \/ TweetWrite
    \/ TweetNotify
    \/ StatsFetch
    \/ StatsRead
    \/ StatsNotify
    \/ StatsWrite
    \/ ChecksStart

SpecOverlap == InitOverlap /\ [][NextOverlap]_vars

\* The tweet checks of one run of the process, with what they delivered.
NextCycles == MonitorTweetsRecorded

SpecCycles == InitTweets /\ [][NextCycles]_vars

SpecTweets == InitTweets /\ [][NextTweets]_vars

\* run_schedule runs the tweet check every CHECK_INTERVAL minutes for as
\* long as the process lives: the check keeps being run.
SpecTweetsFair == SpecTweets /\ WF_vars(MonitorTweets)

\* The stats check on its own: one cycle after another.
InitStats == InitTweets

NextStats == MonitorXtrackerStats

SpecStats == InitStats /\ [][NextStats]_vars

\* The tweet check with restarts: any number of checks, then a restart, and
\* so on.
NextRestart ==
    \/ MonitorTweets
    \/ Restart

SpecRestart == InitTweets /\ [][NextRestart]_vars

\* main() --once: run_once, with any configured list of usernames.
InitRunOnce ==
    /\ InitFetchVars
    /\ max_retries = MaxRetries
    /\ retry_delay = RETRY_DELAY
    /\ InitServiceVars
    /\ XtIdle
    /\ on_first_run_push_all = FALSE
    /\ DingIdle
    /\ twitter_users \in UserLists
    /\ xtracker_url \in BOOLEAN
    /\ mode = "once"
    /\ runPc = "idle"
    /\ runIdx = 1
    /\ calls = <<>>
    /\ visited = <<>>
    /\ interruptedAt = ""
    /\ stopNotes = 0
    /\ stopDelivered = FALSE
    /\ startedAfter = FALSE
    /\ activeTasks = <<>>
    /\ NothingFormatted

NextRunOnce ==
    \/ RunOnce
    \/ TweetsStep
    \/ StatsStep
    \/ CheckReturns

SpecRunOnce == InitRunOnce /\ [][NextRunOnce]_vars

\* main() without a flag: run_schedule until the interrupt.
InitSchedule ==
    /\ InitFetchVars
    /\ max_retries = MaxRetries
    /\ retry_delay = RETRY_DELAY
    /\ InitServiceVars
    /\ on_first_run_push_all = FALSE
    /\ DingIdle
    /\ XtIdle
    /\ twitter_users = TWITTER_USERS
    /\ xtracker_url \in BOOLEAN
    /\ mode = "schedule"
    /\ runPc = "idle"
    /\ runIdx = 1
    /\ calls = <<>>
    /\ visited = <<>>
    /\ interruptedAt = ""
    /\ stopNotes = 0
    /\ stopDelivered = FALSE
    /\ startedAfter = FALSE
    /\ activeTasks = <<>>
    /\ NothingFormatted

NextSchedule ==
    \/ RunSchedule
    \/ TaskStarts
    \/ TweetsStep
    \/ StatsStep
    \/ TaskReturns
    \/ Interrupt
    \/ StopNotification

SpecSchedule == InitSchedule /\ [][NextSchedule]_vars

\* main() --health.
InitHealth ==
    /\ InitFetchVars
    /\ max_retries = MaxRetries
    /\ retry_delay = RETRY_DELAY
    /\ InitServiceVars
    /\ on_first_run_push_all = FALSE
    /\ DingIdle
    /\ XtIdle
    /\ twitter_users = TWITTER_USERS
    /\ xtracker_url \in BOOLEAN
    /\ mode = "health"
    /\ runPc = "idle"
    /\ runIdx = 1
    /\ calls = <<>>
    /\ visited = <<>>
    /\ interruptedAt = ""
    /\ stopNotes = 0
    /\ stopDelivered = FALSE
    /\ startedAfter = FALSE
    /\ activeTasks = <<>>
    /\ NothingFormatted

NextHealth == HealthCheck

SpecHealth == InitHealth /\ [][NextHealth]_vars

\* The tweet notification on its own: one new tweet after another.
InitFormat ==
    /\ InitTweets
    /\ on_first_run_push_all = FALSE

NextFormat == SendTweetNotification

SpecFormat == InitFormat /\ [][NextFormat]_vars

\* The XTracker client on its own: one get_user_stats after another.
InitXTracker ==
    /\ InitFetchVars
    /\ max_retries = MaxRetries
    /\ retry_delay = RETRY_DELAY
    /\ InitServiceVars
    /\ on_first_run_push_all = FALSE
    /\ RunIdle
    /\ DingIdle
    /\ InitXtVars

NextXTracker ==
    \/ GetUserStats
    \/ XtGet
    \/ XtNoAttempt

SpecXTracker == InitXTracker /\ [][NextXTracker]_vars

\* The DingTalk client on its own: one payload after another.
InitDing ==
    /\ InitFetchVars
    /\ max_retries = MaxRetries
    /\ retry_delay = RETRY_DELAY
    /\ InitServiceVars
    /\ RunIdle
    /\ XtIdle
    /\ on_first_run_push_all = FALSE
    /\ InitDingVars

NextDing ==
    \/ StartSend
    \/ Post
    \/ NoPost
    \/ NotificationStepEnds

SpecDing == InitDing /\ [][NextDing]_vars

\* The three retry wrappers side by side, each with its own retry count,
\* which config.py reads with int() and no lower bound: counts from
\* -MaxBelow up to 1. The wrappers share no state. With every count at
\* zero or below the three are called in any order; a wrapper whose count
\* is positive is called on its own, as in SpecFetch, SpecXTracker and
\* SpecDing.
MaxBelow == 1

RetryCounts == (0 - MaxBelow)..1

InitRetries ==
    /\ max_retries \in RetryCounts
    /\ retry_delay = RETRY_DELAY
    /\ FetchVarsIdle
    /\ ding_max_retries \in RetryCounts
    /\ DingVarsIdle
    /\ xt_max_retries \in RetryCounts
    /\ jsonErrorIsRequestException = FALSE
    /\ XtVarsIdle
    /\ Cardinality({w \in {"twitter", "dingtalk", "xtracker"} :
            CASE w = "twitter"  -> max_retries > 0
              [] w = "dingtalk" -> ding_max_retries > 0
              [] w = "xtracker" -> xt_max_retries > 0}) <= 1
    /\ InitServiceVars
    /\ on_first_run_push_all = FALSE
    /\ RunIdle

\* get_latest_tweets is called.
TimelineCall ==
    /\ xt_max_retries <= 0
    /\ ding_max_retries <= 0
    /\ StartFetch

\* get_user_stats is called.
StatsCall ==
    /\ max_retries <= 0
    /\ ding_max_retries <= 0
    /\ GetUserStats

\* A notification is handed to _send_request.
SendCall ==
    /\ max_retries <= 0
    /\ xt_max_retries <= 0
    /\ StartSend

NextRetries ==
    \/ TimelineCall
    \/ GetFails
    \/ GetSucceeds
    \/ NoAttempt
    \/ Return
    \/ StatsCall
    \/ XtGet
    \/ XtNoAttempt
    \/ SendCall
    \/ Post
    \/ NoPost
    \/ NotificationStepEnds

SpecRetries == InitRetries /\ [][NextRetries]_vars

(***************************************************************************)
(* Properties of the mirror fetch (checked under SpecFetch).               *)
(***************************************************************************)
\* The numeric value of a string of digits.
RECURSIVE IdValue(_)
IdValue(id) ==
    IF id = <<>> THEN 0
    ELSE 10 * IdValue(SubSeq(id, 1, Len(id) - 1)) + id[Len(id)]

\* C1: a mirror whose every GET attempt fails is attempted exactly
\* max_retries times: never more than max_retries GETs go to one mirror in
\* one call, _make_request has returned None only after max_retries failed
\* GETs, and (for max_retries >= 1) once max_retries GETs have failed it has
\* returned None.
C1_RetryBound ==
    \A m \in Mirrors :
        /\ gets[m] <= max_retries
        /\ returnedNone[m] => gets[m] = max_retries /\ fails[m] = max_retries
        /\ (max_retries >= 1 /\ fails[m] = max_retries) => returnedNone[m]

C1_Witness ==
    \E m \in Mirrors :
        /\ max_retries >= 2
        /\ returnedNone[m]
        /\ gets[m] = max_retries
        /\ fails[m] = max_retries

\* C2: when a call of get_latest_tweets has returned, every record of the
\* result comes from the one mirror whose page parsed into records, never
\* from a mirror that failed; if some mirror failed all its retries and
\* another yielded records, the result holds exactly the yielding mirror's
\* ids; and the result is empty only if every mirror was tried and none
\* yielded a record, so a failing mirror neither ends the call nor empties
\* the result.
C2_Failover ==
    pc = "done" =>
        /\ \A i \in 1..Len(result) :
            /\ yielded[result[i].nitter_source] # <<>>
            /\ ~returnedNone[result[i].nitter_source]
        /\ \A a, b \in Mirrors :
            (returnedNone[a] /\ yielded[b] # <<>>) =>
                /\ result # <<>>
                /\ \A i \in 1..Len(result) : result[i].nitter_source = b
                /\ Range(TweetIds(result)) = Range(yielded[b])
        /\ result = <<>> =>
            \A m \in Mirrors : m \in Range(tried) /\ yielded[m] = <<>>

C2_Witness ==
    /\ pc = "done"
    /\ max_retries >= 1
    /\ Len(tried) = 2
    /\ returnedNone[tried[1]]
    /\ fails[tried[1]] = max_retries
    /\ fails[tried[2]] = 0
    /\ Len(yielded[tried[2]]) >= 2
    /\ Range(TweetIds(result)) = Range(yielded[tried[2]])

\* C3: the mirrors requested in one call are a prefix of the shuffled
\* order, each once; every requested mirror but the last yielded no record
\* (so none is requested after one that yielded); a mirror that yielded
\* records ends the call; and no GET goes to a mirror that was not requested.
C3_FirstSuccessWins ==
    /\ Len(tried) <= Len(urls)
    /\ \A i \in 1..Len(tried) : tried[i] = urls[i]
    /\ \A i \in 1..(Len(tried) - 1) : yielded[tried[i]] = <<>>
    /\ \A m \in Mirrors : yielded[m] # <<>> => pc \in {"done", "idle"}
    /\ \A m \in Mirrors : gets[m] > 0 => m \in Range(tried)

C3_Witness ==
    /\ pc = "done"
    /\ Len(tried) = 1
    /\ yielded[urls[1]] # <<>>
    /\ gets[urls[2]] = 0

\* C4: the returned list is in descending order of the numeric value of
\* the tweet ids.
C4_NumericDescending ==
    pc = "done" =>
        \A i, j \in 1..Len(result) :
            i < j => IdValue(result[i].tweet_id) > IdValue(result[j].tweet_id)

\* C5: the returned list has no two records with the same tweet_id and
\* at most max_tweets records.
C5_UniqueAndBounded ==
    pc = "done" =>
        /\ Len(result) <= max_tweets
        /\ \A i, j \in 1..Len(result) :
            result[i].tweet_id = result[j].tweet_id => i = j

C5_Witness ==
    /\ pc = "done"
    /\ \E m \in Mirrors :
        /\ Len(yielded[m]) = max_tweets
        /\ Cardinality(Range(yielded[m])) < Len(yielded[m])
        /\ Len(result) = Cardinality(Range(yielded[m]))

(***************************************************************************)
(* Properties of the tweet check (checked under SpecTweets).               *)
(***************************************************************************)
NotifiedIds(u) == [i \in 1..Len(notified[u]) |-> notified[u][i].tweet_id]

HadMarker(u) == u \in DOMAIN markerBefore

\* The position of id in ids, 0 when it does not occur.
PositionOf(id, ids) ==
    IF \E i \in 1..Len(ids) : ids[i] = id
    THEN CHOOSE i \in 1..Len(ids) :
            ids[i] = id /\ \A j \in 1..(i - 1) : ids[j] # id
    ELSE 0

\* C6: a tweet check that fetches the non-empty list the check before it
\* fetched sends no notification and leaves the marker as it was.
C6_Idempotent ==
    \A u \in Users :
        repeat[u] => notified[u] = <<>> /\ last_tweet_ids = markerBefore

C6_Witness ==
    \E u \in Users :
        /\ repeat[u]
        /\ Len(fetched[u]) >= 2
        /\ notified[u] = <<>>
        /\ last_tweet_ids[u] = fetched[u][1]

\* C7: with no stored marker and the first-run flag disabled, a tweet check
\* over a non-empty list sends no notification and stores the first
\* (newest) fetched id as the marker.
C7_FirstRunBaseline ==
    \A u \in Users :
        (~HadMarker(u) /\ ~on_first_run_push_all /\ fetched[u] # <<>>) =>
            /\ notified[u] = <<>>
            /\ u \in DOMAIN last_tweet_ids
            /\ last_tweet_ids[u] = fetched[u][1]

\* C8: with no stored marker and the first-run flag enabled, a tweet check
\* notifies every fetched record, in the fetched order, and stores the first
\* fetched id as the marker.
C8_FirstRunPushAll ==
    \A u \in Users :
        (~HadMarker(u) /\ on_first_run_push_all /\ fetched[u] # <<>>) =>
            /\ NotifiedIds(u) = fetched[u]
            /\ u \in DOMAIN last_tweet_ids
            /\ last_tweet_ids[u] = fetched[u][1]

\* C9: when the stored marker occurs among the fetched ids, exactly the
\* ids before it are notified, in order, and the marker becomes the first
\* fetched id.
C9_MarkerFound ==
    \A u \in Users :
        (HadMarker(u) /\ PositionOf(markerBefore[u], fetched[u]) > 0) =>
            /\ NotifiedIds(u) =
                SubSeq(fetched[u], 1, PositionOf(markerBefore[u], fetched[u]) - 1)
            /\ last_tweet_ids[u] = fetched[u][1]

C11_MarkerAfterDelivery ==
    \A u \in Users :
        (HadMarker(u) /\ last_tweet_ids[u] # markerBefore[u]) =>
            /\ notified[u] # <<>>
            /\ \A i \in 1..Len(notified[u]) : notified[u][i].delivered

\* C12: a tweet whose notification was sent and refused does not stay
\* undelivered for ever once the webhook accepts messages and the tweet
\* stays in the fetched window: again and again, the tweet is delivered, or
\* the webhook refused during the last check, or the tweet was not fetched.
C12_AtLeastOnce ==
    \A u \in Users : \A t \in Ids :
        []<>(~(/\ t \in undelivered[u]
               /\ webhookOk[u]
               /\ t \in Range(fetched[u])))

(***************************************************************************)
(* Properties of the DingTalk client (checked under SpecDing).             *)
(***************************************************************************)
\* C17: _send_request returns True exactly when some POST of the call was
\* answered by a 2xx response with errcode 0; when every POST ends in a
\* non-2xx status, a missing errcode, a nonzero errcode, a transport error
\* or an unreadable body, it returns False.
C17_TrueIffErrcodeZero ==
    dingPc = "returned" =>
        /\ dingResult = "True" <=>
            \E i \in 1..Len(responses) : responses[i] = "ok"
        /\ (\A i \in 1..Len(responses) : responses[i] # "ok") =>
            dingResult = "False"

C17_Witness ==
    /\ dingPc = "returned"
    /\ dingResult = "True"
    /\ Len(responses) = 3
    /\ responses[1] = "no_errcode"
    /\ responses[2] = "non_2xx"
    /\ responses[3] = "ok"

\* C18: one call makes at most max_retries POSTs, none after the first
\* accepted one, and exactly max_retries when every POST fails; whatever
\* the kind of failure, each failed POST uses up exactly one attempt.
C18_PostBound ==
    /\ posts <= ding_max_retries
    /\ posts = Len(responses)
    /\ \A i \in 1..(Len(responses) - 1) : responses[i] # "ok"
    /\ dingPc = "sending" => dingAttempt = posts
    /\ (dingPc = "returned" /\ \A i \in 1..Len(responses) : responses[i] # "ok")
        => posts = ding_max_retries

C18_Witness ==
    /\ dingPc = "returned"
    /\ dingResult = "False"
    /\ ding_max_retries = 3
    /\ posts = 3
    /\ responses[1] = "errcode"
    /\ responses[2] = "transport"

\* C19: _send_request never ends by raising, whatever the webhook answers,
\* and no exception leaves the notification step of the service: a failed
\* delivery ends as the value False and the service goes on.
C19_NeverEscalated ==
    /\ dingResult \in {"True", "False"}
    /\ ~escaped
    /\ (dingPc \in {"returned", "idle"} /\ responses # <<>>
            /\ \A i \in 1..Len(responses) : responses[i] # "ok")
        => dingResult = "False"

C19_Witness ==
    /\ dingPc = "idle"
    /\ dingResult = "False"
    /\ ~escaped
    /\ {"bad_body", "non_2xx", "errcode"} \subseteq Range(responses)

(***************************************************************************)
(* Properties of the stats check (checked under SpecStats).                *)
(***************************************************************************)
HadSnapshot(u) == u \in DOMAIN statsBefore

C14_SecondaryPersisted ==
    \A u \in Users :
        (/\ HadSnapshot(u)
         /\ statsFetched[u] # <<>>
         /\ statsFetched[u][1].followers = statsBefore[u].followers
         /\ statsFetched[u][1] # statsBefore[u]) =>
            /\ statsNotified[u] = <<>>
            /\ last_stats[u] = statsFetched[u][1]

\* C15: a stats check sends no notification for a username that had no
\* stored snapshot before the check.
C15_NoFirstObservationAlert ==
    \A u \in Users : ~HadSnapshot(u) => statsNotified[u] = <<>>

\* C16: when a stats check replaced the stored snapshot after a change of
\* followers, its notification was delivered; after a refused notification
\* the stored snapshot is the one from before the check.
C16_SnapshotAfterDelivery ==
    \A u \in Users :
        statsNotified[u] # <<>> =>
            IF statsNotified[u][1].delivered
            THEN last_stats[u] = statsFetched[u][1]
            ELSE LastStats(last_stats, u) = LastStats(statsBefore, u)

(***************************************************************************)
(* Durability (checked under SpecRestart).                                 *)
(***************************************************************************)
\* C20: right after a restart the stored markers and the stored snapshots
\* are those from before the restart, and the first tweet check after a
\* restart that fetches the same tweets as the last check before it sends
\* no notification.
C20_DurableAcrossRestart ==
    /\ restartPc = "restarted" =>
        /\ last_tweet_ids = markerBefore
        /\ last_stats = statsBefore
    /\ restartPc = "first_cycle" =>
        \A u \in Users : repeat[u] => notified[u] = <<>>

(***************************************************************************)
(* Properties of the loops and of run_once (checked under SpecRunOnce).    *)
(***************************************************************************)
VisitedBy(check) ==
    LET by == SelectSeq(visited, LAMBDA v : v.check = check)
    IN  [i \in 1..Len(by) |-> by[i].username]

Prefix(s, n) == [i \in 1..n |-> s[i]]

\* C21: while a check runs, the usernames it has processed are the first
\* usernames of the configured list, in list order, whatever was raised
\* while they were processed, and no exception has left the check; a check
\* that is over has processed the whole list.
C21_PerUsernameIsolation ==
    /\ runPc # "raised"
    /\ runPc = "tweets" =>
        /\ runIdx - 1 <= Len(twitter_users)
        /\ VisitedBy("monitor_tweets") = Prefix(twitter_users, runIdx - 1)
    /\ runPc = "stats" =>
        /\ runIdx - 1 <= Len(twitter_users)
        /\ VisitedBy("monitor_tweets") = twitter_users
        /\ VisitedBy("monitor_xtracker_stats") = Prefix(twitter_users, runIdx - 1)
    /\ runPc = "done" =>
        /\ VisitedBy("monitor_tweets") = twitter_users
        /\ xtracker_url => VisitedBy("monitor_xtracker_stats") = twitter_users

C21_Witness ==
    /\ runPc = "done"
    /\ Len(twitter_users) = 2
    /\ Len(visited) = 4
    /\ visited[1].raised = "detect"
    /\ visited[2].raised = "none"
    /\ visited[3].raised = "fetch"
    /\ visited[4].raised = "notify"

\* C26: run_once calls the tweet check and then the stats check, each once;
\* every entry of the tweet check precedes every entry of the stats check,
\* the tweet check has processed the whole list when the stats check is
\* called, and once the tweet check is left the stats check has been called,
\* whatever was raised in the tweet check.
C26_RunOnceSequential ==
    /\ \E n \in 0..2 : calls = Prefix(<<"monitor_tweets", "monitor_xtracker_stats">>, n)
    /\ \A i, j \in 1..Len(visited) :
        (visited[i].check = "monitor_xtracker_stats" /\ visited[j].check = "monitor_tweets")
            => j < i
    /\ Len(calls) = 2 => VisitedBy("monitor_tweets") = twitter_users
    /\ runPc \notin {"idle", "tweets"} => Len(calls) = 2

C26_Witness ==
    /\ runPc = "done"
    /\ Len(twitter_users) = 2
    /\ \A i \in 1..2 : visited[i].raised = "fetch"
    /\ Len(visited) = 4
    /\ calls = <<"monitor_tweets", "monitor_xtracker_stats">>

(***************************************************************************)
(* Properties of the XTracker client (checked under SpecXTracker).         *)
(***************************************************************************)
\* The last GET of the finished call was answered 2xx with a JSON body.
Decoded == xtPc = "returned" /\ xtLast.kind \in {"dict", "list", "scalar"}

SameValue(a, b) == a.kind = b.kind /\ a.val = b.val

\* C22: when the call ended on a decoded body, _make_request returned the
\* first element of a list that is not empty, the body itself for a
\* mapping, and None for an empty list and for every other body.
C22_BodyShapes ==
    Decoded =>
        /\ (xtLast.kind = "list" /\ xtLast.val # <<>>) =>
                SameValue(xtData, xtLast.val[1])
        /\ xtLast.kind = "dict" => SameValue(xtData, xtLast)
        /\ (xtLast.kind = "scalar" \/ (xtLast.kind = "list" /\ xtLast.val = <<>>)) =>
                xtData.kind = "none"

C22_Witness ==
    /\ Decoded
    /\ xtLast.kind = "list"
    /\ Len(xtLast.val) = 2
    /\ xtLast.val[1].kind = "dict"
    /\ xtLast.val[2].kind = "scalar"
    /\ xtData.kind = "dict"

\* The decoded body is a mapping or a list of one mapping.
Recognizable ==
    /\ Decoded
    /\ \/ xtLast.kind = "dict"
       \/ /\ xtLast.kind = "list"
          /\ Len(xtLast.val) = 1
          /\ xtLast.val[1].kind = "dict"

\* C23: for a body that is a mapping or a list of one mapping,
\* get_user_stats returns a snapshot, and a numeric field none of whose
\* keys is in the mapping is 0 in it.
C23_NoneOnlyIfUnrecognizable ==
    Recognizable =>
        /\ xtStats # <<>>
        /\ \A f \in NumericFields :
            Range(CandidateKeys[f]) \cap DOMAIN xtData.val = {} => xtStats[1][f] = 0

\* C24: in the snapshot made from a mapping each numeric field holds the
\* value of '<name>Count' if that key is present, else of '<name>' if
\* present, else of stats.<name> if present, else 0; 'verified' and
\* 'description' are in the snapshot exactly if they are in the mapping.
C24_KeyPriority ==
    (xtPc = "returned" /\ xtData.kind = "dict" /\ xtStats # <<>>) =>
        LET d == xtData.val
            stats == xtStats[1]
            has(k) == k \in DOMAIN d
        IN  /\ has("followersCount") => stats.followers = d["followersCount"]
            /\ (~has("followersCount") /\ has("followers")) =>
                    stats.followers = d["followers"]
            /\ (~has("followersCount") /\ ~has("followers") /\ has("stats.followers")) =>
                    stats.followers = d["stats.followers"]
            /\ (~has("followersCount") /\ ~has("followers") /\ ~has("stats.followers")) =>
                    stats.followers = 0
            /\ has("followingCount") => stats.following = d["followingCount"]
            /\ (~has("followingCount") /\ has("following")) =>
                    stats.following = d["following"]
            /\ (~has("followingCount") /\ ~has("following") /\ has("stats.following")) =>
                    stats.following = d["stats.following"]
            /\ (~has("followingCount") /\ ~has("following") /\ ~has("stats.following")) =>
                    stats.following = 0
            /\ has("tweetsCount") => stats.tweets = d["tweetsCount"]
            /\ (~has("tweetsCount") /\ has("tweets")) => stats.tweets = d["tweets"]
            /\ (~has("tweetsCount") /\ ~has("tweets") /\ has("stats.tweets")) =>
                    stats.tweets = d["stats.tweets"]
            /\ (~has("tweetsCount") /\ ~has("tweets") /\ ~has("stats.tweets")) =>
                    stats.tweets = 0
            /\ "verified" \in DOMAIN stats <=> has("verified")
            /\ "description" \in DOMAIN stats <=> has("description")

C24_Witness ==
    /\ xtPc = "returned"
    /\ xtData.kind = "dict"
    /\ DOMAIN xtData.val = {"followersCount", "followers"}
    /\ xtData.val["followersCount"] = 1
    /\ xtData.val["followers"] = 0
    /\ xtStats # <<>>
    /\ xtStats[1].followers = 1
    /\ xtStats[1].tweets = 0
    /\ DOMAIN xtStats[1] = NumericFields

\* The last GET of the finished call ended in a parse error: a body that is
\* not JSON or a body of a shape _make_request does not recognize.
ParseError ==
    /\ xtPc = "returned"
    /\ \/ xtLast.kind \in {"undecodable", "scalar"}
       \/ xtLast.kind = "list" /\ xtLast.val = <<>>

\* C25: a call that ended on a parse error has used all max_retries
\* attempts and slept 1, 2, ... seconds between them, as a call that ended
\* on a transport error has.
C25_ParseErrorRetried ==
    ParseError =>
        /\ xtGets = xt_max_retries
        /\ xtSlept = [i \in 1..(xt_max_retries - 1) |-> Pow2(i - 1)]

(***************************************************************************)
(* Properties of run_schedule (checked under SpecSchedule).                *)
(***************************************************************************)
\* C27: once the interrupt has come, in the loop or in a task, run_schedule
\* is about to send the stopping notification or has left the loop; it
\* hands exactly one stopping notification to the client before it leaves,
\* leaves whether or not the webhook accepted it, starts no task after the
\* interrupt, and no exception leaves run_schedule.
C27_InterruptStops ==
    /\ runPc # "raised"
    /\ interruptedAt # "" <=> runPc \in {"stopping", "exited"}
    /\ runPc = "stopping" => stopNotes = 0
    /\ runPc = "exited" => stopNotes = 1
    /\ interruptedAt = "" => stopNotes = 0
    /\ ~startedAfter

C27_Witness ==
    /\ runPc = "exited"
    /\ interruptedAt = "tweets"
    /\ stopNotes = 1
    /\ ~stopDelivered

(***************************************************************************)
(* Properties of health_check (checked under SpecHealth).                  *)
(***************************************************************************)
\* C28: the status health_check returns is 'healthy' only if the timeline
\* probe, the stats probe when the endpoint is configured, and the webhook
\* probe all passed; and the entry of a probe that failed is not 'ok'.
C28_HealthyOnlyIfAllPass ==
    healthResults # <<>> =>
        LET probes == healthProbes[1]
            results == healthResults[1]
            allPassed ==
                /\ probes.timeline
                /\ xtracker_url => probes.stats
                /\ probes.webhook
        IN  /\ results.status = "healthy" => allPassed
            /\ ~probes.timeline => results.components.twitter_monitor # "ok"
            /\ (xtracker_url /\ ~probes.stats) => results.components.xtracker # "ok"
            /\ ~probes.webhook => results.components.dingtalk # "ok"

C30_NewestOfWholePage ==
    (pc = "done" /\ result # <<>>) =>
        LET candidates == Range(pageRecords)
            returned == Range(TweetIds(result))
        IN  /\ returned \subseteq candidates
            /\ Cardinality(returned) =
                   IF Cardinality(candidates) < max_tweets
                   THEN Cardinality(candidates) ELSE max_tweets
            /\ \A a \in returned, b \in candidates \ returned :
                   IdValue(a) > IdValue(b)

RECURSIVE SumSeq(_)
SumSeq(q) == IF q = <<>> THEN 0 ELSE Head(q) + SumSeq(Tail(q))

FailedPosts == Cardinality({i \in 1..Len(responses) : responses[i] # "ok"})

\* C32: in DingTalkClient._send_request the delay slept after failed attempt
\* a (counted from 0) is 2^a seconds whatever the kind of failure, one delay
\* per failed attempt except the last attempt allowed; an always-failing
\* webhook costs 2^(max_retries - 1) - 1 seconds of sleep in all.
C32_ExponentialBackoff ==
    /\ Len(dingSlept) =
           IF FailedPosts > 0 /\ FailedPosts = ding_max_retries
           THEN FailedPosts - 1 ELSE FailedPosts
    /\ \A i \in 1..Len(dingSlept) : dingSlept[i] = 2 ^ (i - 1)
    /\ (dingPc = "returned" /\ dingResult = "False" /\ ding_max_retries >= 1)
        => SumSeq(dingSlept) = 2 ^ (ding_max_retries - 1) - 1

C32_Witness ==
    /\ dingPc = "returned"
    /\ dingResult = "False"
    /\ ding_max_retries = 4
    /\ responses[1] = "errcode"
    /\ responses[2] = "transport"
    /\ responses[3] = "bad_body"
    /\ dingSlept = <<1, 2, 4>>

\* C33: one call of XTrackerClient._make_request issues at most max_retries
\* GETs; a call whose attempts all ended in a transport error or a non-2xx
\* status has issued exactly max_retries of them, slept 2^attempt seconds
\* between consecutive attempts and returned None; no GET follows one that
\* was answered with a parsed body.
C33_XtRetryBound ==
    /\ xtGets <= xt_max_retries
    /\ xtPc = "request" =>
            /\ xtLast.kind \notin {"dict", "list", "scalar"}
            /\ xtSlept = [i \in 1..xtGets |-> 2 ^ (i - 1)]
    /\ (xtPc = "returned" /\ xtLast.kind \in {"transport", "non_2xx"}) =>
            /\ xtGets = xt_max_retries
            /\ xtSlept = [i \in 1..(xt_max_retries - 1) |-> 2 ^ (i - 1)]
            /\ xtData.kind = "none"

C33_Witness ==
    /\ xtPc = "returned"
    /\ xt_max_retries = 4
    /\ xtLast.kind = "non_2xx"
    /\ xtGets = 4
    /\ xtSlept = <<1, 2, 4>>
    /\ xtData.kind = "none"

\* C34: over the tweet checks of one run of the process, no notification is
\* sent for a tweet id the webhook has accepted a notification for in an
\* earlier check, whichever mirror serves each check.
C34_NoDuplicateNotification ==
    \A u \in Users :
        \A i \in 1..Len(notified[u]) :
            notified[u][i].tweet_id \notin deliveredBefore[u]

\* C35: in run_schedule at most one task body is active at any time, and
\* while one is active every access to the per-username state since it
\* began is its own, one username after the other: no step of the other
\* check comes between the read, the decision and the write for a username.
C35_TasksNeverOverlap ==
    /\ Len(activeTasks) <= 1
    /\ runPc \in {"tweets", "stats"} <=> activeTasks # <<>>
    /\ activeTasks # <<>> =>
            /\ runPc = Entered(activeTasks[1], xtracker_url)
            /\ \A i \in 1..Len(visited) :
                    /\ visited[i].check = activeTasks[1]
                    /\ visited[i].username = twitter_users[i]

C35_Witness ==
    /\ activeTasks = <<"monitor_xtracker_stats">>
    /\ Len(visited) = 1
    /\ last_tweet_ids # <<>>

\* C36: when a tweet check and a stats check of one username are
\* interleaved step by step, the marker the tweet check wrote and the
\* snapshot the stats check wrote are both in the service's state: neither
\* check's write undoes the other's.
C36_NoLostUpdate ==
    /\ written.marker # <<>> =>
            /\ OverlapUser \in DOMAIN last_tweet_ids
            /\ last_tweet_ids[OverlapUser] = written.marker[1]
    /\ written.snapshot # <<>> =>
            /\ OverlapUser \in DOMAIN last_stats
            /\ last_stats[OverlapUser] = written.snapshot[1]

C36_Witness ==
    /\ tweetPc = "done"
    /\ statsPc = "done"
    /\ overlapped
    /\ written.marker # <<>>
    /\ written.snapshot # <<>>

\* C37: the stored marker of a username never decreases as a number: after
\* every tweet check it is at least what it was before the check, also
\* when the check fetched only older tweets or a first record that is not
\* the largest id.
C37_MarkerNeverDecreases ==
    \A u \in Users :
        HadMarker(u) =>
            IdValue(last_tweet_ids[u]) >= IdValue(markerBefore[u])

SameDict(a, b) ==
    /\ DOMAIN a = DOMAIN b
    /\ \A k \in DOMAIN a : a[k] = b[k]

\* C38: a failed observation changes nothing: a tweet check whose fetch
\* returned no record has handed no notification to the client and the
\* username's marker is what it was when the check began, and a stats check
\* whose fetch returned None has handed no notification to the client and
\* the username's snapshot is what it was when the check began.
C38_FailedObservationNoChange ==
    /\ (tweetPc = "done" /\ tweetLocal.current_tweet_id = <<>>) =>
            /\ ~handedOver.tweet
            /\ SameDict(last_tweet_ids, stateBefore.last_tweet_ids)
    /\ (statsPc = "done" /\ statsLocal.stats = <<>>) =>
            /\ ~handedOver.stats
            /\ SameDict(last_stats, stateBefore.last_stats)

C38_Witness ==
    /\ tweetPc = "done"
    /\ tweetLocal.current_tweet_id = <<>>
    /\ statsPc = "done"
    /\ statsLocal.stats = <<>>
    /\ stateBefore.last_tweet_ids # <<>>
    /\ stateBefore.last_stats # <<>>

\* C39: every cycle of a check ends, whatever the services answer: a tweet
\* check issues at most |usernames| * |mirrors| * max_retries timeline
\* GETs and a stats check at most |usernames| * max_retries GETs, a cycle
\* makes at most max_retries POSTs per notification, and a cycle that is
\* under way eventually has returned.
C39_CyclesTerminate ==
    /\ [](cyTask = "monitor_tweets" =>
            cyGets <= Len(twitter_users) * Len(nitter_urls) * max_retries)
    /\ [](cyTask = "monitor_xtracker_stats" =>
            cyGets <= Len(twitter_users) * xt_max_retries)
    /\ [](cyPosts <= cyNotes * ding_max_retries)
    /\ (cyPc \in {"get", "post"}) ~> (cyPc = "done")

C39_Witness ==
    /\ cyPc = "done"
    /\ cyTask = "monitor_tweets"
    /\ Len(twitter_users) = 2
    /\ max_retries = 3
    /\ cyGets = 12

\* C40: a retry wrapper whose max_retries is zero or negative makes no
\* request at all and reports failure by its return value: the timeline
\* wrapper gives None for every mirror and get_latest_tweets an empty list,
\* the XTracker wrapper gives None, the DingTalk wrapper gives False and
\* lets no exception out; no GET and no POST goes out and nothing is slept.
C40_NoAttemptWithoutRetries ==
    /\ max_retries <= 0 =>
            /\ \A m \in Mirrors : gets[m] = 0 /\ slept[m] = <<>>
            /\ \A i \in 1..Len(tried) :
                    (i < Len(tried) \/ pc = "done") => returnedNone[tried[i]]
            /\ pc = "done" => result = <<>> /\ Len(tried) = Len(urls)
    /\ xt_max_retries <= 0 =>
            /\ xtGets = 0
            /\ xtSlept = <<>>
            /\ xtPc = "returned" => xtData = None /\ xtStats = <<>>
    /\ ding_max_retries <= 0 =>
            /\ posts = 0
            /\ dingSlept = <<>>
            /\ ~escaped
            /\ dingPc = "returned" => dingResult = "False"

C40_Witness ==
    /\ max_retries < 0
    /\ xt_max_retries = 0
    /\ ding_max_retries < 0
    /\ pc = "done"
    /\ Len(tried) = Len(urls)
    /\ \A m \in Mirrors : returnedNone[m] /\ gets[m] = 0
    /\ xtPc = "returned"
    /\ xtData = None
    /\ dingPc = "returned"
    /\ dingResult = "False"
    /\ posts = 0

====
